---- MODULE Spec2Model ----
(***************************************************************************)
(* A model of epanetlib/sim/PyomoSimulator.py: the per-timestep driver     *)
(* run_sim, the two equation-system builders, the pressure-reducing-valve  *)
(* state machine _set_valve_status and the conditional-control engine      *)
(* _apply_conditional_controls.                                            *)
(*                                                                         *)
(* Quantities are integers in fixed units: a flow is a multiple of         *)
(* 1e-6 m3/s and a head, level or elevation a multiple of 1e-5 m, so that  *)
(* the two tolerances of the source are the integers Qtol and Htol.        *)
(* The external algebraic solver is a nondeterministic choice among the    *)
(* assignments of a small domain that satisfy the system it is given.      *)
(* Model.create() of the installed Pyomo returns either a copy of the      *)
(* model or the model itself; the choice is fixed when the simulator is    *)
(* constructed and both are covered.                                       *)
(***************************************************************************)
EXTENDS Integers, Sequences, FiniteSets, TLC

VARIABLES
    wn,                    \* the water network model (queried, never mutated)
    create_copies,         \* the installed Pyomo: Model.create() returns a copy
                           \* of the model (TRUE) or the model itself (FALSE)
    pc,                    \* "idle" | "loop" | "done" | "error" | "valve"
    t,                     \* run_sim: timestep index
    step_iter,             \* run_sim: retry counter
    valve_status_changed,  \* run_sim: result of the last _set_valve_status
    valve_status,          \* self._valve_status
    link_status,           \* self._link_status, one boolean sequence per link
    pyomo_sim_results,     \* self._pyomo_sim_results (name and time columns)
    pumps_closed,          \* run_sim: list of links closed by conditional controls
    last_tank_head,        \* run_sim: tank heads of the last accepted instant
    instance,              \* the pyomo instance after instance.load(pyomo_results)
    error,                 \* the RuntimeError that left run_sim, if any
    sys,                   \* history: the system handed to the solver last
    solve_ok,              \* history: whether the last solver call reported success
    solves_at_t,           \* history: solver calls made at the current timestep
    ctl_opened,            \* history: base-CLOSED links opened by a control rule
    valve_changes,         \* history: status changes per valve under constant inputs
    runs_left              \* the calls of run_sim the client still makes

vars == <<wn, create_copies, pc, t, step_iter, valve_status_changed, valve_status, link_status,
          pyomo_sim_results, pumps_closed, last_tank_head, instance, error,
          sys, solve_ok, solves_at_t, ctl_opened, valve_changes, runs_left>>

(***************************************************************************)
(* Program constants.                                                      *)
(***************************************************************************)
Qtol == 28
Htol == 15
maxiter == 10
\* self._g = 9.81, times 100
g_x100 == 981
\* q1 of LossFunc (line 351), in flow units
q1 == 3493

(***************************************************************************)
(* Bounds of the model.                                                    *)
(***************************************************************************)
n_timesteps == 3
MaxChanges == 3
MaxRuns == 2

(***************************************************************************)
(* Small helpers over Python lists and dictionaries.                       *)
(***************************************************************************)
InSeq(k, seq) == \E i \in 1..Len(seq) : seq[i] = k
Remove(seq, k) == SelectSeq(seq, LAMBDA j : j # k)
SeqToSet(seq) == {seq[i] : i \in 1..Len(seq)}
EmptyFn == [x \in {} |-> 0]

NodesOf(kind) == {n \in wn.nodes : wn.node_type[n] = kind}
LinksOf(kind) == {l \in wn.links : wn.link_type[l] = kind}
Junctions == NodesOf("Junction")
Tanks == NodesOf("Tank")
Reservoirs == NodesOf("Reservoir")
Pipes == LinksOf("Pipe")
Pumps == LinksOf("Pump")
Valves == LinksOf("Valve")

\* Junctions and tanks have an elevation; reading node.elevation of a
\* reservoir raises AttributeError.
HasElevation(n) == wn.node_type[n] \in {"Junction", "Tank"}
IndexOf(seq, k) == CHOOSE i \in 1..Len(seq) : seq[i] = k

(***************************************************************************)
(* _set_valve_status.  ValveRow is the branch of the if/elif chain taken   *)
(* for one valve; RowStatus the status that branch assigns.                *)
(***************************************************************************)
\* A faulty variant, against which the properties are tested: the target is taken at the downstream node.
head_sp_downstream(valve_name) ==
    wn.setting[valve_name] + wn.elevation[wn.end_node[valve_name]]

\* head_sp = pressure_setting + start_node_elevation (line 1164)
head_sp(valve_name) ==
    wn.setting[valve_name] + wn.elevation[wn.start_node[valve_name]]

\* A faulty variant, against which the properties are tested: the two rows
\* of every status are tried in the other order.
ValveRowBadOrder(status, flow, hs, he, sp) ==
    IF status = "ACTIVE" THEN
        IF hs < sp - Htol THEN "ACTIVE_OPEN"
        ELSE IF flow < -Qtol THEN "ACTIVE_CLOSED"
        ELSE "none"
    ELSE IF status = "OPEN" THEN
        IF hs > sp + Htol THEN "OPEN_ACTIVE"
        ELSE IF flow < -Qtol THEN "OPEN_CLOSED"
        ELSE "none"
    ELSE IF status = "CLOSED" THEN
        IF hs > he + Htol /\ he < sp - Htol THEN "CLOSED_ACTIVE"
        ELSE IF hs > he + Htol /\ hs < sp - Htol THEN "CLOSED_OPEN"
        ELSE "none"
    ELSE "none"

ValveRow(status, flow, hs, he, sp) ==
    IF status = "ACTIVE" THEN
        IF flow < -Qtol THEN "ACTIVE_CLOSED"
        ELSE IF hs < sp - Htol THEN "ACTIVE_OPEN"
        ELSE "none"
    ELSE IF status = "OPEN" THEN
        IF flow < -Qtol THEN "OPEN_CLOSED"
        ELSE IF hs > sp + Htol THEN "OPEN_ACTIVE"
        ELSE "none"
    ELSE IF status = "CLOSED" THEN
        IF hs > he + Htol /\ hs < sp - Htol THEN "CLOSED_OPEN"
        ELSE IF hs > he + Htol /\ he < sp - Htol THEN "CLOSED_ACTIVE"
        ELSE "none"
    ELSE "none"

RowStatus(row, status) ==
    CASE row = "ACTIVE_CLOSED" -> "CLOSED"
      [] row = "ACTIVE_OPEN"   -> "OPEN"
      [] row = "OPEN_CLOSED"   -> "CLOSED"
      [] row = "OPEN_ACTIVE"   -> "ACTIVE"
      [] row = "CLOSED_OPEN"   -> "OPEN"
      [] row = "CLOSED_ACTIVE" -> "ACTIVE"
      [] OTHER                 -> status

ValveRowOf(vs, inst, valve_name) ==
    ValveRow(vs[valve_name],
             inst.flow[valve_name],
             inst.head[wn.start_node[valve_name]],
             inst.head[wn.end_node[valve_name]],
             head_sp(valve_name))

\* The valves the loop of _set_valve_status gets through: those before the
\* first valve whose start node has no elevation to read (line 1161).
ValvesEvaluated ==
    LET bad == {v \in Valves : ~HasElevation(wn.start_node[v])}
    IN  {v \in Valves :
            \A b \in bad : IndexOf(wn.link_order, v) < IndexOf(wn.link_order, b)}

\* self._valve_status after the call, the returned flag, and whether the
\* call raised instead of returning.
set_valve_status(vs, inst) ==
    [ status  |-> [v \in Valves |->
                     IF v \in ValvesEvaluated
                     THEN RowStatus(ValveRowOf(vs, inst, v), vs[v])
                     ELSE vs[v]],
      changed |-> \E v \in ValvesEvaluated : ValveRowOf(vs, inst, v) # "none",
      raised  |-> ValvesEvaluated # Valves ]

(***************************************************************************)
(* The networks of the model.  Head values are multiples of H1 = Htol + 1  *)
(* and flow values multiples of QBig = Qtol + 1, so that every comparison  *)
(* of the valve state machine can come out either way.                     *)
(***************************************************************************)
H1 == Htol + 1
QBig == Qtol + 1

AllOpen == [i \in 1..n_timesteps |-> TRUE]
AllClosed == [i \in 1..n_timesteps |-> FALSE]
\* A time control that closes the link from the third timestep on.
OpenThenClosed == [i \in 1..n_timesteps |-> i <= 2]

Rule(node_name, value) == [node |-> node_name, value |-> value]
Controls(open_below, closed_above, open_above, closed_below) ==
    [ open_below |-> open_below, closed_above |-> closed_above,
      open_above |-> open_above, closed_below |-> closed_below ]

\* wn.conditional_controls of the chain network: rule sets for the pump PU1
\* triggered by the level of tank T1 (initial level 2*H1).
NoControls == EmptyFn
PumpControlLowHigh ==
    "PU1" :> Controls(<<Rule("T1", 2 * H1 - QBig)>>, <<Rule("T1", 2 * H1)>>, <<>>, <<>>)
PumpControlCloseOpenAbove ==
    "PU1" :> Controls(<<>>, <<Rule("T1", 2 * H1)>>, <<Rule("T1", 2 * H1)>>, <<>>)
PumpControlBelowAbove ==
    "PU1" :> Controls(<<>>, <<>>, <<Rule("T1", 2 * H1 + QBig)>>, <<Rule("T1", 2 * H1)>>)
\* A single rule: open the pump while the tank is at or above its initial level.
PumpControlOpenAbove ==
    "PU1" :> Controls(<<>>, <<>>, <<Rule("T1", 2 * H1)>>, <<>>)
\* Two rules at the tank's initial level: open at or below it, close at or
\* above it.
PumpControlOpenCloseAt ==
    "PU1" :> Controls(<<Rule("T1", 2 * H1)>>, <<Rule("T1", 2 * H1)>>, <<>>, <<>>)
\* Close at or above the tank's initial level, open only two steps of
\* level below it.
PumpControlLatch ==
    "PU1" :> Controls(<<Rule("T1", 2 * H1 - 2 * QBig)>>, <<Rule("T1", 2 * H1)>>, <<>>, <<>>)
ControlChoices ==
    {NoControls, PumpControlLowHigh, PumpControlCloseOpenAbove, PumpControlBelowAbove}

\* Reservoir R1 -PU1-> junction J1 -V1-> junction J2 -P1-> tank T1.
ChainNet(pump_base_status, pipe_base_status, info_type, pump_schedule, controls) ==
    [ nodes       |-> {"R1", "J1", "J2", "T1"},
      node_order  |-> <<"R1", "J1", "J2", "T1">>,
      node_type   |-> ("R1" :> "Reservoir") @@ ("J1" :> "Junction")
                      @@ ("J2" :> "Junction") @@ ("T1" :> "Tank"),
      \* a reservoir has a base head and no elevation
      elevation   |-> ("J1" :> H1) @@ ("J2" :> 0) @@ ("T1" :> 0),
      base_head   |-> ("R1" :> 4 * H1),
      init_level  |-> ("T1" :> 2 * H1),
      min_level   |-> ("T1" :> 0),
      max_level   |-> ("T1" :> 2 * H1 + QBig),
      \* timestep*4/(pi*diameter^2), in the units of the model
      dyn_coef    |-> ("T1" :> 1),
      links       |-> {"PU1", "V1", "P1"},
      link_order  |-> <<"PU1", "V1", "P1">>,
      link_type   |-> ("PU1" :> "Pump") @@ ("V1" :> "Valve") @@ ("P1" :> "Pipe"),
      start_node  |-> ("PU1" :> "R1") @@ ("V1" :> "J1") @@ ("P1" :> "J2"),
      end_node    |-> ("PU1" :> "J1") @@ ("V1" :> "J2") @@ ("P1" :> "T1"),
      base_status |-> ("PU1" :> pump_base_status) @@ ("V1" :> "OPEN")
                      @@ ("P1" :> pipe_base_status),
      info_type   |-> ("PU1" :> info_type),
      \* pump.power, in units of 1e-11 W: a head gain of H1 at flow QBig
      power       |-> ("PU1" :> H1 * QBig * g_x100 * 10),
      \* get_head_curve_coefficients(): head gain A - B*flow^C, B = Bn/Bd
      head_curve  |-> ("PU1" :> [A |-> H1, Bn |-> 4 * H1, Bd |-> QBig * QBig, C |-> 2]),
      \* pipe_resistance_coeff (line 435), in s/m2
      pipe_resistance_coeff |-> ("P1" :> 1000),
      \* valve_resistance_coefficient (line 829) as the fraction Kn/Kd, in
      \* head units per squared flow unit
      valve_resistance_coefficient |-> ("V1" :> [Kn |-> H1, Kd |-> QBig * QBig]),
      setting     |-> ("V1" :> 2 * H1),
      \* get_node_demand(n): no demand at J1, QBig at J2 on odd timesteps
      demand      |-> ("J1" :> [i \in 1..n_timesteps |-> 0])
                      @@ ("J2" :> [i \in 1..n_timesteps |->
                                      IF i % 2 = 0 THEN QBig ELSE 0]),
      \* is_link_open(l, t*hydraulic_step) for every link and timestep
      is_link_open |-> ("PU1" :> pump_schedule) @@ ("V1" :> AllOpen)
                       @@ ("P1" :> AllOpen),
      conditional_controls |-> controls,
      control_order |-> IF controls = NoControls THEN <<>> ELSE <<"PU1">> ]

\* Three junctions in a row joined by two valves, for the valve state
\* machine taken alone.
TwoValveNet ==
    [ nodes       |-> {"J1", "J2", "J3"},
      node_order  |-> <<"J1", "J2", "J3">>,
      node_type   |-> [n \in {"J1", "J2", "J3"} |-> "Junction"],
      elevation   |-> ("J1" :> H1) @@ ("J2" :> 0) @@ ("J3" :> H1),
      base_head   |-> EmptyFn,
      init_level  |-> EmptyFn,
      min_level   |-> EmptyFn,
      max_level   |-> EmptyFn,
      dyn_coef    |-> EmptyFn,
      links       |-> {"V1", "V2"},
      link_order  |-> <<"V1", "V2">>,
      link_type   |-> [l \in {"V1", "V2"} |-> "Valve"],
      start_node  |-> ("V1" :> "J1") @@ ("V2" :> "J2"),
      end_node    |-> ("V1" :> "J2") @@ ("V2" :> "J3"),
      base_status |-> [l \in {"V1", "V2"} |-> "OPEN"],
      info_type   |-> EmptyFn,
      power       |-> EmptyFn,
      head_curve  |-> EmptyFn,
      pipe_resistance_coeff |-> EmptyFn,
      valve_resistance_coefficient |->
          [l \in {"V1", "V2"} |-> [Kn |-> H1, Kd |-> QBig * QBig]],
      setting     |-> [l \in {"V1", "V2"} |-> 2 * H1],
      demand      |-> [n \in {"J1", "J2", "J3"} |-> [i \in 1..n_timesteps |-> 0]],
      is_link_open |-> [l \in {"V1", "V2"} |-> AllOpen],
      conditional_controls |-> NoControls,
      control_order |-> <<>> ]

(***************************************************************************)
(* _apply_conditional_controls.  The state threaded through the loops is   *)
(* the two closed lists and self._link_status; "opened" logs the links an  *)
(* open rule removed from pumps_closed (the commented-out print).          *)
(***************************************************************************)
current_tank_level(inst, node_name) ==
    inst.head[node_name] - wn.elevation[node_name]

\* A faulty variant, against which the properties are tested: the override
\* opens the whole schedule of the link, past timesteps included.
OpenRemainingWhole(status, tt) == [i \in 1..Len(status) |-> TRUE]

\* for tt in xrange(t, self._n_timesteps): self._link_status[k][tt] = True
OpenRemaining(status, tt) ==
    [i \in 1..Len(status) |-> IF i - 1 >= tt /\ i - 1 < n_timesteps
                               THEN TRUE ELSE status[i]]

\* The body of an open rule that fires (lines 1087-1097 and 1116-1125).
OpenLink(st, link_name_k, tt) ==
    [ pumps_closed |-> Remove(st.pumps_closed, link_name_k),
      pipes_closed |-> Remove(st.pipes_closed, link_name_k),
      link_status  |->
          IF InSeq(link_name_k, st.pipes_closed)
             /\ wn.base_status[link_name_k] = "CLOSED"
          THEN [st.link_status EXCEPT
                    ![link_name_k] = OpenRemaining(@, tt)]
          ELSE st.link_status,
      opened       |-> st.opened \cup {link_name_k} ]

\* A faulty variant, against which the properties are tested: an open rule
\* opens the link whatever the tank level.
RECURSIVE open_rules_without_condition(_, _, _, _, _, _)
open_rules_without_condition(st, inst, link_name_k, rules, below, tt) ==
    IF rules = <<>> THEN st
    ELSE LET fires == InSeq(link_name_k, st.pumps_closed)
         IN open_rules_without_condition(
                IF fires THEN OpenLink(st, link_name_k, tt) ELSE st,
                inst, link_name_k, Tail(rules), below, tt)

RECURSIVE open_rules(_, _, _, _, _, _)
open_rules(st, inst, link_name_k, rules, below, tt) ==
    IF rules = <<>> THEN st
    ELSE LET i == Head(rules)
             level == current_tank_level(inst, i.node)
             fires == /\ InSeq(link_name_k, st.pumps_closed)
                      /\ IF below THEN level <= i.value ELSE level >= i.value
         IN open_rules(IF fires THEN OpenLink(st, link_name_k, tt) ELSE st,
                       inst, link_name_k, Tail(rules), below, tt)

\* A faulty variant, against which the properties are tested: the link is
\* appended whenever the condition holds, already in the list or not.
RECURSIVE close_rules_no_membership_test(_, _, _, _, _)
close_rules_no_membership_test(st, inst, link_name_k, rules, above) ==
    IF rules = <<>> THEN st
    ELSE LET i == Head(rules)
             level == current_tank_level(inst, i.node)
             fires == IF above THEN level >= i.value ELSE level <= i.value
         IN close_rules_no_membership_test(
                IF fires
                THEN [st EXCEPT !.pumps_closed = Append(@, link_name_k)]
                ELSE st,
                inst, link_name_k, Tail(rules), above)

RECURSIVE close_rules(_, _, _, _, _)
close_rules(st, inst, link_name_k, rules, above) ==
    IF rules = <<>> THEN st
    ELSE LET i == Head(rules)
             level == current_tank_level(inst, i.node)
             fires == /\ ~InSeq(link_name_k, st.pumps_closed)
                      /\ IF above THEN level >= i.value ELSE level <= i.value
         IN close_rules(IF fires
                        THEN [st EXCEPT !.pumps_closed = Append(@, link_name_k)]
                        ELSE st,
                        inst, link_name_k, Tail(rules), above)

\* A faulty variant, against which the properties are tested: the two
\* closed loops come before the two open loops.
controls_of_link_closed_first(st, inst, link_name_k, tt) ==
    LET value == wn.conditional_controls[link_name_k]
        s1 == close_rules(st, inst, link_name_k, value.closed_above, TRUE)
        s2 == close_rules(s1, inst, link_name_k, value.closed_below, FALSE)
        s3 == open_rules(s2, inst, link_name_k, value.open_below, TRUE, tt)
    IN open_rules(s3, inst, link_name_k, value.open_above, FALSE, tt)

\* One pass of the outer loop: open_below, closed_above, open_above,
\* closed_below of one link.
controls_of_link(st, inst, link_name_k, tt) ==
    LET value == wn.conditional_controls[link_name_k]
        s1 == open_rules(st, inst, link_name_k, value.open_below, TRUE, tt)
        s2 == close_rules(s1, inst, link_name_k, value.closed_above, TRUE)
        s3 == open_rules(s2, inst, link_name_k, value.open_above, FALSE, tt)
    IN close_rules(s3, inst, link_name_k, value.closed_below, FALSE)

RECURSIVE controls_loop(_, _, _, _)
controls_loop(st, inst, order, tt) ==
    IF order = <<>> THEN st
    ELSE controls_loop(controls_of_link(st, inst, Head(order), tt),
                       inst, Tail(order), tt)

apply_conditional_controls(inst, closed_pumps, pipes_closed, status, tt) ==
    controls_loop([ pumps_closed |-> closed_pumps, pipes_closed |-> pipes_closed,
                    link_status |-> status, opened |-> {} ],
                  inst, wn.control_order, tt)

(***************************************************************************)
(* The equation systems.  A constraint is a descriptor                     *)
(*   pipe_headloss       link; a = 1 for the smoothed loss, 0 for plain    *)
(*   pump_head           link:  head[start] - head[end] = -A + B*flow^C    *)
(*   pump_power          link:  (head[start] - head[end])*flow*a/100 = b   *)
(*   valve_headloss      link:  Kv*flow^2 = head[start] - head[end]        *)
(*   mass_balance        node                                              *)
(*   junction_elevation  node:  head >= elevation                          *)
(*   tank_head_bounds    node                                              *)
(*   pump_positive_flow  link:  flow >= 0                                  *)
(*   tank_dynamics       node:  coef*net_inflow = head[i+a] - head[i+b],   *)
(*                       i the instant of the constraint                   *)
(***************************************************************************)
NoName == "-"
Con(kind, link, node, a, b) ==
    [kind |-> kind, link |-> link, node |-> node, a |-> a, b |-> b]

\* The spellings of a word in every mix of upper and lower case.
SpellingsOfCV ==
    { "cv", "cV", "Cv", "CV" }

SpellingsOfOpen ==
    { "open", "opeN", "opEn", "opEN", "oPen", "oPeN", "oPEn", "oPEN", "Open",
      "OpeN", "OpEn", "OpEN", "OPen", "OPeN", "OPEn", "OPEN" }

SpellingsOfClosed ==
    { "closed", "closeD", "closEd", "closED", "cloSed", "cloSeD", "cloSEd",
      "cloSED", "clOsed", "clOseD", "clOsEd", "clOsED", "clOSed", "clOSeD",
      "clOSEd", "clOSED", "cLosed", "cLoseD", "cLosEd", "cLosED", "cLoSed",
      "cLoSeD", "cLoSEd", "cLoSED", "cLOsed", "cLOseD", "cLOsEd", "cLOsED",
      "cLOSed", "cLOSeD", "cLOSEd", "cLOSED", "Closed", "CloseD", "ClosEd",
      "ClosED", "CloSed", "CloSeD", "CloSEd", "CloSED", "ClOsed", "ClOseD",
      "ClOsEd", "ClOsED", "ClOSed", "ClOSeD", "ClOSEd", "ClOSED", "CLosed",
      "CLoseD", "CLosEd", "CLosED", "CLoSed", "CLoSeD", "CLoSEd", "CLoSED",
      "CLOsed", "CLOseD", "CLOsEd", "CLOsED", "CLOSed", "CLOSeD", "CLOSEd",
      "CLOSED" }

SpellingsOfActive ==
    { "active", "activE", "actiVe", "actiVE", "actIve", "actIvE", "actIVe",
      "actIVE", "acTive", "acTivE", "acTiVe", "acTiVE", "acTIve", "acTIvE",
      "acTIVe", "acTIVE", "aCtive", "aCtivE", "aCtiVe", "aCtiVE", "aCtIve",
      "aCtIvE", "aCtIVe", "aCtIVE", "aCTive", "aCTivE", "aCTiVe", "aCTiVE",
      "aCTIve", "aCTIvE", "aCTIVe", "aCTIVE", "Active", "ActivE", "ActiVe",
      "ActiVE", "ActIve", "ActIvE", "ActIVe", "ActIVE", "AcTive", "AcTivE",
      "AcTiVe", "AcTiVE", "AcTIve", "AcTIvE", "AcTIVe", "AcTIVE", "ACtive",
      "ACtivE", "ACtiVe", "ACtiVE", "ACtIve", "ACtIvE", "ACtIVe", "ACtIVE",
      "ACTive", "ACTivE", "ACTiVe", "ACTiVE", "ACTIve", "ACTIvE", "ACTIVe",
      "ACTIVE" }

\* str.upper() on the status words of the model, in any case of their
\* letters; a string of upper-case letters is its own upper case.
Upper(str) ==
    CASE str \in SpellingsOfCV     -> "CV"
      [] str \in SpellingsOfOpen   -> "OPEN"
      [] str \in SpellingsOfClosed -> "CLOSED"
      [] str \in SpellingsOfActive -> "ACTIVE"
      [] OTHER                     -> str

SameCase(str) == str

\* A faulty variant, against which the properties are tested: the base
\* status is compared as written.
IsCheckValveExact(base_status) == SameCase(base_status) = "CV"

\* link.get_base_status().upper() == 'CV'
IsCheckValve(base_status) == Upper(base_status) = "CV"

KnownPumpType(l) == wn.info_type[l] \in {"HEAD", "POWER"}

PipeCons(closed, modified_hazen_williams) ==
    { Con("pipe_headloss", l, NoName, IF modified_hazen_williams THEN 1 ELSE 0, 0) :
        l \in {p \in Pipes : ~closed[p]} }

\* The pump constraints of build_hydraulic_model_at_instant (lines 453-466).
PumpConsAtInstant(closed) ==
    { Con("pump_head", l, NoName, 0, 0) :
        l \in {p \in Pumps : wn.info_type[p] = "HEAD" /\ ~closed[p]} }
    \cup
    { Con("pump_power", l, NoName, g_x100 * 1000, -(wn.power[l] * 100)) :
        l \in {p \in Pumps : wn.info_type[p] = "POWER" /\ ~closed[p]} }

\* The pump constraints of build_hydraulic_model (lines 225-240).
PumpConsFull(closed) ==
    { Con("pump_head", l, NoName, 0, 0) :
        l \in {p \in Pumps : wn.info_type[p] = "HEAD" /\ ~closed[p]} }
    \cup
    { Con("pump_power", l, NoName, g_x100, wn.power[l] * 100) :
        l \in {p \in Pumps : wn.info_type[p] = "POWER" /\ ~closed[p]} }

MassBalanceCons == { Con("mass_balance", NoName, n, 0, 0) : n \in wn.nodes }

\* build_hydraulic_model_at_instant.  The result is the model, or the
\* RuntimeError raised and what had been created when it was raised.
build_hydraulic_model_at_instant(tank_head, nodal_demands, first_timestep, links_closed, modified_hazen_williams) ==
    LET closed == [l \in wn.links |-> InSeq(l, links_closed)]
        base == [ error |-> "none", error_link |-> NoName, variables |-> FALSE,
                  cons |-> {}, demand_required |-> nodal_demands,
                  last_tank_head |-> tank_head, first_timestep |-> first_timestep ]
    IN  IF \E l \in wn.links : IsCheckValve(wn.base_status[l])
        THEN [base EXCEPT !.error = "check_valve"]
        ELSE IF \E l \in Pumps : ~KnownPumpType(l)
        THEN [base EXCEPT !.error = "pump_info_type",
                          !.error_link = CHOOSE l \in Pumps : ~KnownPumpType(l),
                          !.variables = TRUE,
                          !.cons = PipeCons(closed, modified_hazen_williams)]
        ELSE [base EXCEPT
                !.variables = TRUE,
                !.cons = PipeCons(closed, modified_hazen_williams)
                         \cup PumpConsAtInstant(closed)
                         \cup MassBalanceCons
                         \cup (IF first_timestep THEN {}
                               ELSE { Con("tank_dynamics", NoName, n, 0, -1) :
                                        n \in Tanks })]

\* build_hydraulic_model: the constraints of the whole horizon, each with
\* the instant it is written for.  model.time is range(0, duration/step + 1),
\* the instants 0 .. self._n_timesteps - 1 that run_sim visits.
build_hydraulic_model(modified_hazen_williams) ==
    LET time == 0..(n_timesteps - 1)
        closed(tt) == [l \in wn.links |-> ~wn.is_link_open[l][tt + 1]]
        At(tt, cons) == { [t |-> tt, con |-> c] : c \in cons }
        base == [ error |-> "none", error_link |-> NoName, variables |-> FALSE,
                  cons |-> {} ]
    IN  IF \E l \in wn.links : IsCheckValve(wn.base_status[l])
        THEN [base EXCEPT !.error = "check_valve"]
        ELSE [base EXCEPT
                !.variables = TRUE,
                !.cons = UNION { At(tt,
                    PipeCons(closed(tt), modified_hazen_williams)
                    \cup PumpConsFull(closed(tt))
                    \cup MassBalanceCons
                    \cup { Con("junction_elevation", NoName, n, 0, 0) : n \in Junctions }
                    \cup { Con("tank_head_bounds", NoName, n, 0, 0) : n \in Tanks }
                    \cup { Con("pump_positive_flow", l, NoName, 0, 0) : l \in Pumps }
                    \cup (IF tt = n_timesteps - 1 THEN {}
                          ELSE { Con("tank_dynamics", NoName, n, 1, 0) : n \in Tanks })
                    ) : tt \in time }]

(***************************************************************************)
(* run_sim, lines 771-843: the system that is solved.  The reservoir and   *)
(* tank pins are put on `model` (lines 771-784); `instance` is then made   *)
(* by model.create() (line 797), the results of the last solve are loaded  *)
(* into it (lines 801-802) and the flows of the closed links are fixed on  *)
(* it (lines 806-812).  The valve branch (lines 818-835) writes on `model`,*)
(* and it is `instance` that is solved (line 842).  Whether the solver     *)
(* sees what the branch wrote depends on the installed Pyomo: where        *)
(* create() returns the model itself it does, where create() returns a     *)
(* copy it does not.                                                       *)
(***************************************************************************)
\* A faulty variant, against which the properties are tested: the reservoir
\* keeps the head it was initialised with.
reservoir_head_initial(n) == 5 * H1

\* reservoir_head = self._wn.get_node(n).base_head (line 774)
reservoir_head(n) == wn.base_head[n]

\* tank_initial_head = tank.elevation + tank.init_level (line 782)
tank_initial_head(n) == wn.elevation[n] + wn.init_level[n]

\* Lines 818-835: what the valve branch leaves on `model`, and whether it
\* raised (line 834 reads the elevation of the end node of an ACTIVE valve).
valve_branch(vs) ==
    [ flow_fixed |-> {v \in Valves : vs[v] = "CLOSED"},
      cons       |-> { Con("valve_headloss", v, NoName, 0, 0) :
                         v \in {l \in Valves : vs[l] = "OPEN"} },
      head_fixed |-> { wn.end_node[v] :
                         v \in {l \in Valves : vs[l] = "ACTIVE"
                                               /\ HasElevation(wn.end_node[l])} },
      raised     |-> \E v \in Valves :
                        vs[v] = "ACTIVE" /\ ~HasElevation(wn.end_node[v]) ]

\* init_head_rule (lines 415-419): the value a head variable is built with;
\* 100.0 m for a reservoir.
init_head_rule(n) == IF HasElevation(n) THEN wn.elevation[n] ELSE 10000000

\* Lines 801-802, instance.load(pyomo_results): the value of head[n] before
\* the pins.  The results of a solve carry the variables that solve left
\* free; at the first timestep nothing is loaded.
loaded_head(first_timestep, last_sys, last_instance, n) ==
    IF ~first_timestep /\ last_sys.built /\ ~last_sys.head_fixed[n]
    THEN last_instance.head[n]
    ELSE init_head_rule(n)

\* Lines 806-812 and 824-827: whether the flow of link l is fixed (to 0) on
\* the instance that is solved.
flow_fixed(copies, links_closed, vs, l) ==
    InSeq(l, links_closed) \/ (~copies /\ l \in valve_branch(vs).flow_fixed)

\* The system of lines 771-843.  copies: whether create() returned a copy;
\* last_sys, last_instance: the system of the solve before and the instance
\* its results were loaded into.
PrepareSystem(model, links_closed, vs, tt, copies, last_sys, last_instance) ==
    LET first_timestep == model.first_timestep
        on_model == valve_branch(vs)
        \* what of the valve branch is on the object that is solved
        on_instance == IF copies
                       THEN [flow_fixed |-> {}, cons |-> {}, head_fixed |-> {}]
                       ELSE on_model
        ActivePinsOn(n) == {v \in Valves : vs[v] = "ACTIVE" /\ wn.end_node[v] = n}
    IN  [ t            |-> tt,
          built        |-> TRUE,
          raised       |-> on_model.raised,
          first_timestep |-> first_timestep,
          links_closed |-> links_closed,
          valve_status |-> vs,
          copies       |-> copies,
          on_model     |-> on_model,
          demand_required |-> model.demand_required,
          last_tank_head  |-> model.last_tank_head,
          cons |-> model.cons \cup on_instance.cons,
          flow_fixed |-> [l \in wn.links |-> flow_fixed(copies, links_closed, vs, l)],
          \* run_sim fixes heads and flows only (lines 771-835): the lines
          \* that fix demand_actual (681-682) are in a string literal
          demand_fixed |-> [n \in Junctions |-> FALSE],
          head_fixed |-> [n \in wn.nodes |->
                             \/ n \in Reservoirs
                             \/ (first_timestep /\ n \in Tanks)
                             \/ n \in on_instance.head_fixed],
          head_value |-> [n \in wn.nodes |->
                             IF n \in on_instance.head_fixed
                             THEN wn.setting[CHOOSE v \in ActivePinsOn(n) : TRUE]
                                  + wn.elevation[n]
                             ELSE IF n \in Reservoirs THEN reservoir_head(n)
                             ELSE IF first_timestep /\ n \in Tanks
                             THEN tank_initial_head(n)
                             ELSE loaded_head(first_timestep, last_sys,
                                              last_instance, n)] ]

NoSystem ==
    [ t |-> 0, built |-> FALSE, raised |-> FALSE, first_timestep |-> FALSE,
      links_closed |-> <<>>,
      valve_status |-> EmptyFn,
      copies |-> FALSE,
      on_model |-> [flow_fixed |-> {}, cons |-> {}, head_fixed |-> {},
                    raised |-> FALSE],
      demand_required |-> EmptyFn,
      last_tank_head |-> EmptyFn, cons |-> {}, flow_fixed |-> EmptyFn,
      demand_fixed |-> EmptyFn,
      head_fixed |-> EmptyFn, head_value |-> EmptyFn ]

(***************************************************************************)
(* The external solver.  A successful solve returns an assignment that     *)
(* keeps every fixed variable at its value and satisfies every constraint  *)
(* of the system; where the system leaves a variable undetermined, it      *)
(* returns some value of a small domain.  A failed solve leaves the fixed  *)
(* variables alone and returns some values for the free ones.              *)
(***************************************************************************)
FlowDom == {-QBig, 0, QBig}
HeadDom == {0, H1, 3 * H1, 5 * H1}
FailFlowDom == {0, QBig}
FailHeadDom == {0, 5 * H1}

\* wn.get_links_for_node(n), in the order of the links
get_links_for_node(n) ==
    SelectSeq(wn.link_order,
              LAMBDA l : wn.start_node[l] = n \/ wn.end_node[l] = n)

\* A faulty variant, against which the properties are tested: every incident link is counted as entering the node.
RECURSIVE MassBalanceSumUnsigned(_, _, _)
MassBalanceSumUnsigned(flow, n, links) ==
    IF links = <<>> THEN 0
    ELSE flow[Head(links)] + MassBalanceSumUnsigned(flow, n, Tail(links))

\* expr of node_mass_balance_rule (lines 256-264 and 473-481): a link that
\* starts at the node is subtracted, one that ends at it is added.
RECURSIVE MassBalanceSum(_, _, _)
MassBalanceSum(flow, n, links) ==
    IF links = <<>> THEN 0
    ELSE (IF wn.start_node[Head(links)] = n THEN -flow[Head(links)]
          ELSE flow[Head(links)])
         + MassBalanceSum(flow, n, Tail(links))

MassBalanceExpr(flow, n) == MassBalanceSum(flow, n, get_links_for_node(n))

\* The right-hand side of node_mass_balance_rule (lines 482-489).
MassBalanceHolds(s, inst, n) ==
    MassBalanceExpr(inst.flow, n) =
        IF n \in Junctions THEN s.demand_required[n]
        ELSE IF n \in Tanks THEN inst.tank_net_inflow[n]
        ELSE inst.reservoir_demand[n]

\* tank_dynamics_rule of the instant (line 518)
TankDynamicsHolds(s, inst, n) ==
    inst.tank_net_inflow[n] * wn.dyn_coef[n] = inst.head[n] - s.last_tank_head[n]

Abs(x) == IF x < 0 THEN -x ELSE x

\* LossFunc (lines 342-354), of a flow in flow units, in units of 1e-8 m3/s:
\* f1(Q) = 0.01*Q below q1.  The flows of the model stay below q1, where
\* the cubic Px and the power law f2 take over.
LossFunc(Q) == CASE Q < q1 -> Q

\* The head-loss relations of a link, between its flow and the head drop
\* head[start_node] - head[end_node], in the units of the model.
\* Lines 440-444: sign(flow)*pipe_resistance_coeff*LossFunc(|flow|) == drop
\* (a head unit is 1000 units of LossFunc times s/m2).
pipe_headloss_modified(l, flow, drop) ==
    (IF flow > 0 THEN 1 ELSE -1) * wn.pipe_resistance_coeff[l] * LossFunc(Abs(flow))
        = drop * 1000

\* Line 449: pipe_resistance_coeff*flow*|flow|^0.852 == drop.  At a flow of
\* the grid other than 0 the left-hand side is no whole number of head
\* units (0.395 of a unit at QBig with a coefficient of 1000 s/m2).
pipe_headloss_plain(l, flow, drop) == flow = 0 /\ drop = 0

\* Line 461: drop == -A + B*flow^C
pump_head(l, flow, drop) ==
    LET hc == wn.head_curve[l]
    IN  drop * hc.Bd = -(hc.A * hc.Bd) + hc.Bn * flow ^ hc.C

\* Line 465: drop*flow*g*1000 == -pump.power
pump_power(l, flow, drop) == drop * flow * (g_x100 * 10) = -wn.power[l]

\* Lines 829-830: valve_resistance_coefficient*flow^2 == drop
valve_headloss(l, flow, drop) ==
    LET k == wn.valve_resistance_coefficient[l]
    IN  k.Kn * flow * flow = drop * k.Kd

\* Whether the values of inst satisfy constraint c of a system of an instant.
Sat(c, s, inst) ==
    LET drop == inst.head[wn.start_node[c.link]] - inst.head[wn.end_node[c.link]]
        flow == inst.flow[c.link]
    IN  CASE c.kind = "mass_balance"   -> MassBalanceHolds(s, inst, c.node)
          [] c.kind = "tank_dynamics"  -> TankDynamicsHolds(s, inst, c.node)
          [] c.kind = "pipe_headloss"  ->
                IF c.a = 1 THEN pipe_headloss_modified(c.link, flow, drop)
                ELSE pipe_headloss_plain(c.link, flow, drop)
          [] c.kind = "pump_head"      -> pump_head(c.link, flow, drop)
          [] c.kind = "pump_power"     -> pump_power(c.link, flow, drop)
          [] c.kind = "valve_headloss" -> valve_headloss(c.link, flow, drop)

Satisfies(s, inst) == \A c \in s.cons : Sat(c, s, inst)

HasDynamics(s, n) == Con("tank_dynamics", NoName, n, 0, -1) \in s.cons
HasBalance(s, n) == Con("mass_balance", NoName, n, 0, 0) \in s.cons
\* The heads that are neither fixed nor given by the tank dynamics.
HeadChoices(s) == {n \in wn.nodes : ~s.head_fixed[n] /\ ~HasDynamics(s, n)}
FreeHeads(s) == {n \in wn.nodes : ~s.head_fixed[n]}

\* The flows that keep the fixed flows at 0 and balance every junction.
FlowAssignments(s) ==
    { flow \in [wn.links -> FlowDom] :
        /\ \A l \in wn.links : s.flow_fixed[l] => flow[l] = 0
        /\ \A n \in Junctions :
              HasBalance(s, n) => MassBalanceExpr(flow, n) = s.demand_required[n] }

\* The head drops that satisfy the relation of link constraint c at a flow.
LinkDrops(c, flow) ==
    LET l == c.link
        hc == wn.head_curve[l]
        k == wn.valve_resistance_coefficient[l]
        loss == (IF flow > 0 THEN 1 ELSE -1) * wn.pipe_resistance_coeff[l]
                * LossFunc(Abs(flow))
        gain == -(hc.A * hc.Bd) + hc.Bn * flow ^ hc.C
        work == flow * (g_x100 * 10)
    IN  CASE c.kind = "pipe_headloss" /\ c.a = 1 ->
                IF Abs(loss) % 1000 = 0
                THEN {(IF loss < 0 THEN -1 ELSE 1) * (Abs(loss) \div 1000)} ELSE {}
          [] c.kind = "pipe_headloss" /\ c.a # 1 -> IF flow = 0 THEN {0} ELSE {}
          [] c.kind = "pump_head" ->
                IF Abs(gain) % hc.Bd = 0
                THEN {(IF gain < 0 THEN -1 ELSE 1) * (Abs(gain) \div hc.Bd)} ELSE {}
          [] c.kind = "pump_power" ->
                IF work # 0 /\ wn.power[l] % Abs(work) = 0
                THEN {(IF work < 0 THEN 1 ELSE -1) * (wn.power[l] \div Abs(work))}
                ELSE {}
          [] c.kind = "valve_headloss" ->
                IF (k.Kn * flow * flow) % k.Kd = 0
                THEN {(k.Kn * flow * flow) \div k.Kd} ELSE {}
          [] OTHER -> {}

\* The head of a node that the system gives outright: a fixed head, or the
\* head the tank dynamics give for the net inflow of the flows.
IsGiven(s, n) == s.head_fixed[n] \/ HasDynamics(s, n)
GivenHead(s, flow, n) ==
    IF s.head_fixed[n] THEN s.head_value[n]
    ELSE s.last_tank_head[n] + wn.dyn_coef[n] * MassBalanceExpr(flow, n)

\* The values a solve can leave in the head of node n: those the link
\* relations with a neighbour of given head allow or, without such a
\* relation, any value of the domain.
HeadCandidates(s, flow, n) ==
    LET from_end == UNION { { GivenHead(s, flow, wn.end_node[c.link]) + d :
                                d \in LinkDrops(c, flow[c.link]) } :
                            c \in { x \in s.cons : /\ x.link # NoName
                                                   /\ wn.start_node[x.link] = n
                                                   /\ IsGiven(s, wn.end_node[x.link]) } }
        from_start == UNION { { GivenHead(s, flow, wn.start_node[c.link]) - d :
                                  d \in LinkDrops(c, flow[c.link]) } :
                              c \in { x \in s.cons : /\ x.link # NoName
                                                     /\ wn.end_node[x.link] = n
                                                     /\ IsGiven(s, wn.start_node[x.link]) } }
        tied == \E x \in s.cons :
                    /\ x.link # NoName
                    /\ \/ wn.start_node[x.link] = n /\ IsGiven(s, wn.end_node[x.link])
                       \/ wn.end_node[x.link] = n /\ IsGiven(s, wn.start_node[x.link])
    IN  IF tied THEN from_end \cup from_start ELSE HeadDom

HeadAssignments(s, flow) ==
    LET all == UNION { HeadCandidates(s, flow, n) : n \in HeadChoices(s) }
    IN  { h \in [HeadChoices(s) -> all] :
            \A n \in HeadChoices(s) : h[n] \in HeadCandidates(s, flow, n) }

\* What a failed solve leaves behind: one value in every free flow.
FailedFlows(s) ==
    { [l \in wn.links |-> IF s.flow_fixed[l] THEN 0 ELSE q] : q \in FailFlowDom }

\* A faulty variant, against which the properties are tested: the actual
\* demand starts at 0.
init_demand_rule_zero(s, n) == 0

\* init_demand_rule (lines 426-428): the initial value of demand_actual[n]
init_demand_rule(s, n) == s.demand_required[n]

\* The constraint kinds of a system of an instant that have demand_actual
\* as a term: none, the mass balance of a junction is written with
\* demand_required (line 485; the line with demand_actual is commented out).
DemandActualKinds == {}

\* What the solve leaves in the variables.  demand_actual is in no
\* constraint and not in the objective (line 794), so it keeps its initial
\* value.
MkInstance(s, flow, h, by_dynamics) ==
    LET inflow == [n \in Tanks |-> MassBalanceExpr(flow, n)]
    IN  [ flow |-> flow,
          tank_net_inflow |-> inflow,
          reservoir_demand |-> [n \in Reservoirs |-> MassBalanceExpr(flow, n)],
          demand_actual |-> [n \in Junctions |-> init_demand_rule(s, n)],
          head |-> [n \in wn.nodes |->
                      IF s.head_fixed[n] THEN s.head_value[n]
                      ELSE IF by_dynamics /\ HasDynamics(s, n)
                      THEN s.last_tank_head[n] + wn.dyn_coef[n] * inflow[n]
                      ELSE h[n]] ]

Solutions(s) ==
    { inst \in UNION { { MkInstance(s, flow, h, TRUE) : h \in HeadAssignments(s, flow) } :
                        flow \in FlowAssignments(s) } :
        Satisfies(s, inst) }

Failures(s) ==
    { MkInstance(s, flow, [n \in FreeHeads(s) |-> h], FALSE) :
        flow \in FailedFlows(s), h \in FailHeadDom }

NoInstance ==
    [ flow |-> [l \in wn.links |-> 0],
      tank_net_inflow |-> [n \in Tanks |-> 0],
      reservoir_demand |-> [n \in Reservoirs |-> 0],
      demand_actual |-> [n \in Junctions |-> 0],
      head |-> [n \in wn.nodes |-> 0] ]

(***************************************************************************)
(* __init__ (lines 61-88) and run_sim.                                     *)
(***************************************************************************)
NoError == [kind |-> "none", timestep |-> 0, link |-> NoName]

EmptyResults ==
    [ link_name |-> <<>>, link_times |-> <<>>,
      node_name |-> <<>>, node_times |-> <<>> ]

\* The demand _append_pyomo_results records for a node (lines 1056-1063).
node_demand(inst, n) ==
    IF n \in Junctions THEN inst.demand_actual[n]
    ELSE IF n \in Reservoirs THEN inst.reservoir_demand[n]
    ELSE IF n \in Tanks THEN inst.tank_net_inflow[n]
    ELSE 0

\* _append_pyomo_results: one row per link and one per node, at `time`.
append_pyomo_results(results, time) ==
    [ link_name  |-> results.link_name \o wn.link_order,
      link_times |-> results.link_times
                     \o [i \in 1..Len(wn.link_order) |-> time],
      node_name  |-> results.node_name \o wn.node_order,
      node_times |-> results.node_times
                     \o [i \in 1..Len(wn.node_order) |-> time] ]

\* A faulty variant, against which the properties are tested: the valves
\* start OPEN.
initial_valve_status_open(valve_name) == "OPEN"

\* self._valve_status[valve_name] = 'ACTIVE' (lines 71-74)
initial_valve_status(valve_name) == "ACTIVE"

Constructed(network) ==
    /\ wn = network
    /\ create_copies \in BOOLEAN
    /\ link_status = wn.is_link_open
    /\ valve_status = [v \in Valves |-> initial_valve_status(v)]
    /\ pyomo_sim_results = EmptyResults
    /\ t = 0
    /\ step_iter = 0
    /\ valve_status_changed = FALSE
    /\ pumps_closed = <<>>
    /\ last_tank_head = [n \in Tanks |-> 0]
    /\ instance = NoInstance
    /\ error = NoError
    /\ sys = NoSystem
    /\ solve_ok = TRUE
    /\ solves_at_t = 0
    /\ ctl_opened = {}
    /\ valve_changes = [v \in Valves |-> 0]

\* The networks a run starts from: the chain with the pump's base status,
\* time controls and conditional controls varied, and variants with a
\* fixed-power pump, an unknown pump characterisation and a check valve
\* spelled in upper, lower and mixed case.
Networks ==
    { ChainNet("OPEN", "OPEN", "HEAD", AllOpen, c) : c \in ControlChoices }
    \cup { ChainNet("CLOSED", "OPEN", "HEAD", AllClosed, c) :
             c \in {PumpControlLowHigh, PumpControlCloseOpenAbove} }
    \cup { ChainNet("CLOSED", "OPEN", "HEAD", OpenThenClosed, PumpControlCloseOpenAbove),
           ChainNet("OPEN", "OPEN", "HEAD", OpenThenClosed, NoControls),
           ChainNet("OPEN", "OPEN", "POWER", AllOpen, NoControls),
           ChainNet("OPEN", "OPEN", "SPEED", AllOpen, NoControls),
           ChainNet("OPEN", "CV", "HEAD", AllOpen, NoControls),
           ChainNet("CLOSED", "cv", "HEAD", AllClosed, PumpControlLowHigh),
           ChainNet("OPEN", "Cv", "HEAD", AllOpen, NoControls),
           ChainNet("cV", "OPEN", "HEAD", AllOpen, NoControls) }

Init ==
    /\ pc = "idle"
    /\ runs_left = 1
    /\ \E network \in Networks : Constructed(network)

\* A call of run_sim up to the loop (lines 698-725).  The locals of the
\* call are fresh; the attributes of the simulator are what __init__ or the
\* call before left in them.
RunSimStart ==
    /\ pc \in {"idle", "done", "error"}
    /\ runs_left > 0
    /\ runs_left' = runs_left - 1
    /\ pc' = "loop"
    /\ t' = 0
    /\ step_iter' = 0
    /\ valve_status_changed' = FALSE
    /\ pumps_closed' = <<>>
    /\ last_tank_head' = [n \in Tanks |-> 0]
    /\ instance' = NoInstance
    /\ error' = NoError
    /\ sys' = NoSystem
    /\ solve_ok' = TRUE
    /\ solves_at_t' = 0
    /\ ctl_opened' = {}
    /\ UNCHANGED <<wn, create_copies, valve_status, link_status, pyomo_sim_results, valve_changes>>

\* A faulty variant, against which the properties are tested: the counter is not reset when a timestep is accepted.
NextStepIterNoReset(changed, iter) == iter + (IF changed THEN 1 ELSE 0)

\* lines 856-859
NextStepIter(changed, iter) == IF changed THEN iter + 1 ELSE 0

\* A faulty variant, against which the properties are tested: a rejected solve advances the timestep all the same.
NextTAlways(changed, tt) == tt + 1

\* A faulty variant, against which the properties are tested: a rejected solve starts the horizon again.
NextTRestart(changed, tt) == IF changed THEN 0 ELSE tt + 1

\* lines 856-860
NextT(changed, tt) == IF changed THEN tt ELSE tt + 1

\* A faulty variant, against which the properties are tested: the tank
\* heads are taken from every solve, rejected or not.
NextTankHeadAlways(changed, tank_head, inst) == [n \in Tanks |-> inst.head[n]]


\* lines 856-863: last_tank_head after the pass
NextTankHead(changed, tank_head, inst) ==
    IF changed THEN tank_head ELSE [n \in Tanks |-> inst.head[n]]

\* line 726
LoopGuard(tt, iter) == tt < n_timesteps /\ iter < maxiter

\* A faulty variant, against which the properties are tested: the closures
\* of the time controls are left out of the combined list.
CombinedClosedPumpsOnly(pipes_closed, closed_pumps) == closed_pumps

\* links_closed = pipes_closed + pumps_closed (line 754)
CombinedClosed(pipes_closed, closed_pumps) == pipes_closed \o closed_pumps

\* A faulty variant, against which the properties are tested: no pass is
\* taken for the first timestep.
FirstTimestepNever(tt) == FALSE

\* lines 727-733: first_timestep of the pass
FirstTimestep(tt) == tt = 0

\* A faulty variant, against which the properties are tested: without
\* valves the flag counts as set.
evaluate_valves_flag_set(vs, changed, inst) ==
    IF Cardinality(Valves) # 0
    THEN set_valve_status(vs, inst)
    ELSE [status |-> vs, changed |-> TRUE, raised |-> FALSE]

\* lines 849-850: the state machine is called only if the network has
\* valves; otherwise the flag keeps its value.
evaluate_valves(vs, changed, inst) ==
    IF Cardinality(Valves) # 0
    THEN set_valve_status(vs, inst)
    ELSE [status |-> vs, changed |-> changed, raised |-> FALSE]

\* Lines 727-754: the tank heads, demands and closed links of the pass.
\* (Singleton sets bind a value that is computed once.)
GatherInstant ==
    LET first_timestep == FirstTimestep(t)
        time_closed == SelectSeq(wn.link_order, LAMBDA l : ~link_status[l][t + 1])
        cc == IF ~first_timestep
              THEN apply_conditional_controls(instance, pumps_closed,
                                              time_closed, link_status, t)
              ELSE [ pumps_closed |-> pumps_closed, pipes_closed |-> time_closed,
                     link_status |-> link_status, opened |-> {} ]
    IN  [ first_timestep |-> first_timestep,
          tank_head |-> IF t = 0
                        THEN [n \in Tanks |-> wn.elevation[n] + wn.init_level[n]]
                        ELSE last_tank_head,
          current_demands |-> [n \in Junctions |-> wn.demand[n][t + 1]],
          pumps_closed |-> cc.pumps_closed,
          pipes_closed |-> cc.pipes_closed,
          link_status  |-> cc.link_status,
          opened       |-> cc.opened,
          links_closed |-> CombinedClosed(cc.pipes_closed, cc.pumps_closed) ]

\* One pass of the body of the while loop, lines 727-866.
LoopIteration ==
    /\ pc = "loop"
    /\ LoopGuard(t, step_iter)
    /\ \E g \in {GatherInstant} :
       \E model \in {build_hydraulic_model_at_instant(
                        g.tank_head, g.current_demands, g.first_timestep,
                        g.links_closed, TRUE)} :
         /\ pumps_closed' = g.pumps_closed
         /\ link_status' = g.link_status
         /\ ctl_opened' =
               (ctl_opened \cup {k \in g.opened : wn.base_status[k] = "CLOSED"})
               \ SeqToSet(g.pumps_closed)
         /\ IF model.error # "none"
            THEN /\ pc' = "error"
                 /\ error' = [kind |-> model.error, timestep |-> t,
                              link |-> model.error_link]
                 /\ last_tank_head' = g.tank_head
                 /\ UNCHANGED <<t, step_iter, valve_status_changed, valve_status,
                                pyomo_sim_results, instance, sys, solve_ok,
                                solves_at_t>>
            ELSE \E s \in {PrepareSystem(model, g.links_closed, valve_status, t,
                                            create_copies, sys, instance)} :
                 IF s.raised
                 THEN /\ pc' = "error"
                      /\ error' = [kind |-> "attribute_error", timestep |-> t,
                                   link |-> NoName]
                      /\ last_tank_head' = g.tank_head
                      /\ UNCHANGED <<t, step_iter, valve_status_changed,
                                     valve_status, pyomo_sim_results, instance,
                                     sys, solve_ok, solves_at_t>>
                 ELSE /\ sys' = s
                      /\ \E ok \in BOOLEAN :
                         /\ solve_ok' = ok
                         /\ \E inst \in (IF ok THEN Solutions(s) ELSE Failures(s)) :
                            /\ instance' = inst
                            /\ \E sv \in {evaluate_valves(valve_status,
                                                           valve_status_changed, inst)} :
                               /\ valve_status' = sv.status
                               /\ IF sv.raised
                                  THEN /\ pc' = "error"
                                       /\ error' = [kind |-> "attribute_error",
                                                    timestep |-> t, link |-> NoName]
                                       /\ last_tank_head' = g.tank_head
                                       /\ solves_at_t' = IF solves_at_t > maxiter THEN solves_at_t
                                                        ELSE solves_at_t + 1
                                       /\ UNCHANGED <<t, step_iter, valve_status_changed,
                                                      pyomo_sim_results>>
                                  ELSE /\ valve_status_changed' = sv.changed
                                       /\ step_iter' = NextStepIter(sv.changed, step_iter)
                                       /\ t' = NextT(sv.changed, t)
                                       /\ solves_at_t' =
                                             IF NextT(sv.changed, t) # t THEN 0
                                             ELSE IF solves_at_t > maxiter THEN solves_at_t
                                             ELSE solves_at_t + 1
                                       /\ last_tank_head' =
                                             NextTankHead(sv.changed, g.tank_head, inst)
                                       /\ pyomo_sim_results' =
                                             IF sv.changed THEN pyomo_sim_results
                                             ELSE append_pyomo_results(pyomo_sim_results, t)
                                       /\ UNCHANGED <<pc, error>>
    /\ UNCHANGED <<wn, create_copies, valve_changes, runs_left>>

\* lines 868-869 and the return of run_sim
LoopExit ==
    /\ pc = "loop"
    /\ ~LoopGuard(t, step_iter)
    /\ IF step_iter = maxiter
       THEN /\ pc' = "error"
            /\ error' = [kind |-> "not_converged", timestep |-> t, link |-> NoName]
       ELSE /\ pc' = "done"
            /\ UNCHANGED error
    /\ UNCHANGED <<wn, create_copies, t, step_iter, valve_status_changed, valve_status, link_status,
                   pyomo_sim_results, pumps_closed, last_tank_head, instance, sys,
                   solve_ok, solves_at_t, ctl_opened, valve_changes, runs_left>>

Next == RunSimStart \/ LoopIteration \/ LoopExit

Spec == Init /\ [][Next]_vars

\* run_sim is one sequential loop: whenever a step is possible it is taken.
\* The runs checked for termination start from the plain chain and from the
\* chain with a check valve.
FairNetworks ==
    { ChainNet("OPEN", "OPEN", "HEAD", AllOpen, NoControls),
      ChainNet("OPEN", "CV", "HEAD", AllOpen, NoControls) }

FairInit ==
    /\ pc = "idle"
    /\ runs_left = 1
    /\ \E network \in FairNetworks : Constructed(network)

FairSpec == FairInit /\ [][Next]_vars /\ WF_vars(Next)

\* A client that calls run_sim again on the same simulator after a run has
\* ended or has raised.
RerunNetworks ==
    { ChainNet("CLOSED", "OPEN", "HEAD", AllClosed, PumpControlCloseOpenAbove) }

RerunInit ==
    /\ pc = "idle"
    /\ runs_left = MaxRuns
    /\ \E network \in RerunNetworks : Constructed(network)

RerunSpec == RerunInit /\ [][Next]_vars

\* The chain with a demand of QBig at J2 at every timestep, which the tank
\* alone can supply once the valve has closed.
DrainNet ==
    [ ChainNet("OPEN", "OPEN", "HEAD", AllOpen, NoControls)
        EXCEPT !.demand = ("J1" :> [i \in 1..n_timesteps |-> 0])
                          @@ ("J2" :> [i \in 1..n_timesteps |-> QBig]) ]

\* A reservoir, a junction and a tank with a valve between the reservoir
\* and the junction, in the direction given, and a pipe from the junction to
\* the tank.
ReservoirValveNet(valve_start, valve_end) ==
    [ nodes       |-> {"R1", "J1", "T1"},
      node_order  |-> <<"R1", "J1", "T1">>,
      node_type   |-> ("R1" :> "Reservoir") @@ ("J1" :> "Junction") @@ ("T1" :> "Tank"),
      elevation   |-> ("J1" :> H1) @@ ("T1" :> 0),
      base_head   |-> ("R1" :> 4 * H1),
      init_level  |-> ("T1" :> 2 * H1),
      min_level   |-> ("T1" :> 0),
      max_level   |-> ("T1" :> 2 * H1 + QBig),
      dyn_coef    |-> ("T1" :> 1),
      links       |-> {"V1", "P1"},
      link_order  |-> <<"V1", "P1">>,
      link_type   |-> ("V1" :> "Valve") @@ ("P1" :> "Pipe"),
      start_node  |-> ("V1" :> valve_start) @@ ("P1" :> "J1"),
      end_node    |-> ("V1" :> valve_end) @@ ("P1" :> "T1"),
      base_status |-> ("V1" :> "OPEN") @@ ("P1" :> "OPEN"),
      info_type   |-> EmptyFn,
      power       |-> EmptyFn,
      head_curve  |-> EmptyFn,
      pipe_resistance_coeff |-> ("P1" :> 1000),
      valve_resistance_coefficient |-> ("V1" :> [Kn |-> H1, Kd |-> QBig * QBig]),
      setting     |-> ("V1" :> 2 * H1),
      demand      |-> ("J1" :> [i \in 1..n_timesteps |-> 0]),
      is_link_open |-> ("V1" :> AllOpen) @@ ("P1" :> AllOpen),
      conditional_controls |-> NoControls,
      control_order |-> <<>> ]

\* The chain without any demand, the pump open by base status and schedule,
\* with the given conditional controls.
QuietNet(controls) ==
    [ ChainNet("OPEN", "OPEN", "HEAD", AllOpen, controls)
        EXCEPT !.demand = [n \in {"J1", "J2"} |-> [i \in 1..n_timesteps |-> 0]] ]

\* The chain with a time control that closes the valve V1 from the third
\* timestep on.
ValveScheduleNet ==
    [ ChainNet("OPEN", "OPEN", "HEAD", AllOpen, NoControls)
        EXCEPT !.is_link_open = ("PU1" :> AllOpen) @@ ("V1" :> OpenThenClosed)
                                @@ ("P1" :> AllOpen) ]

\* Reservoir R1 -P1-> junction J1 -V1-> tank T1: the valve ends at the tank,
\* with a pressure setting other than the tank's initial level.
TankValveNet ==
    [ ReservoirValveNet("J1", "T1")
        EXCEPT !.start_node = ("V1" :> "J1") @@ ("P1" :> "R1"),
               !.end_node = ("V1" :> "T1") @@ ("P1" :> "J1"),
               !.setting = ("V1" :> 3 * H1) ]

\* The draining chain with the latching pair of rules on the pump.
LatchNet ==
    [ DrainNet EXCEPT !.conditional_controls = PumpControlLatch,
                      !.control_order = <<"PU1">> ]

\* Reservoir R1 -PU1-> junction J1 -P1-> tank T1: a network without valves,
\* with a demand at the junction on every second timestep and the pair of
\* rules open_below, closed_above on the pump.
NoValveNet ==
    [ nodes       |-> {"R1", "J1", "T1"},
      node_order  |-> <<"R1", "J1", "T1">>,
      node_type   |-> ("R1" :> "Reservoir") @@ ("J1" :> "Junction") @@ ("T1" :> "Tank"),
      elevation   |-> ("J1" :> H1) @@ ("T1" :> 0),
      base_head   |-> ("R1" :> 4 * H1),
      init_level  |-> ("T1" :> 2 * H1),
      min_level   |-> ("T1" :> 0),
      max_level   |-> ("T1" :> 2 * H1 + QBig),
      dyn_coef    |-> ("T1" :> 1),
      links       |-> {"PU1", "P1"},
      link_order  |-> <<"PU1", "P1">>,
      link_type   |-> ("PU1" :> "Pump") @@ ("P1" :> "Pipe"),
      start_node  |-> ("PU1" :> "R1") @@ ("P1" :> "J1"),
      end_node    |-> ("PU1" :> "J1") @@ ("P1" :> "T1"),
      base_status |-> ("PU1" :> "OPEN") @@ ("P1" :> "OPEN"),
      info_type   |-> ("PU1" :> "HEAD"),
      power       |-> ("PU1" :> H1 * QBig * g_x100 * 10),
      head_curve  |-> ("PU1" :> [A |-> H1, Bn |-> H1 + 3, Bd |-> QBig * QBig, C |-> 2]),
      pipe_resistance_coeff |-> ("P1" :> 1000),
      valve_resistance_coefficient |-> EmptyFn,
      setting     |-> EmptyFn,
      demand      |-> ("J1" :> [i \in 1..n_timesteps |-> IF i % 2 = 0 THEN QBig ELSE 0]),
      is_link_open |-> ("PU1" :> AllOpen) @@ ("P1" :> AllOpen),
      conditional_controls |-> PumpControlLowHigh,
      control_order |-> <<"PU1">> ]

\* Runs from networks built for one scenario each.
ScenarioNetworks ==
    { DrainNet,
      NoValveNet,
      LatchNet,
      TankValveNet,
      ValveScheduleNet,
      QuietNet(PumpControlOpenCloseAt),
      ChainNet("OPEN", "OPEN", "HEAD", OpenThenClosed, PumpControlCloseOpenAbove),
      ChainNet("CLOSED", "OPEN", "HEAD", AllClosed, PumpControlOpenAbove),
      ReservoirValveNet("R1", "J1"),
      ReservoirValveNet("J1", "R1") }

ScenarioInit ==
    /\ pc = "idle"
    /\ runs_left = 1
    /\ \E network \in ScenarioNetworks : Constructed(network)

ScenarioSpec == ScenarioInit /\ [][Next]_vars

(***************************************************************************)
(* The valve state machine alone: _set_valve_status called again and again *)
(* on one instance, from every status and every combination of flows and   *)
(* heads of the domain.                                                    *)
(***************************************************************************)
ValveStatuses == {"OPEN", "ACTIVE", "CLOSED"}
ValveFlowDom == {-QBig, -Qtol, 0}
ValveHeadDom == {H1 - Htol, H1, H1 + 1, 2 * H1, 2 * H1 + 1, 3 * H1,
                 3 * H1 + Htol, 4 * H1}

ValveInit ==
    /\ pc = "valve"
    /\ runs_left = 0
    /\ wn = TwoValveNet
    /\ create_copies \in BOOLEAN
    /\ valve_status \in [Valves -> ValveStatuses]
    /\ \E flow \in [wn.links -> ValveFlowDom], head \in [wn.nodes -> ValveHeadDom] :
          instance = [NoInstance EXCEPT !.flow = flow, !.head = head]
    /\ link_status = wn.is_link_open
    /\ pyomo_sim_results = EmptyResults
    /\ t = 0
    /\ step_iter = 0
    /\ valve_status_changed = FALSE
    /\ pumps_closed = <<>>
    /\ last_tank_head = EmptyFn
    /\ error = NoError
    /\ sys = NoSystem
    /\ solve_ok = TRUE
    /\ solves_at_t = 0
    /\ ctl_opened = {}
    /\ valve_changes = [v \in Valves |-> 0]

\* valve_status_changed = self._set_valve_status(instance), the instance
\* left as it is.
SetValveStatusStep ==
    /\ pc = "valve"
    /\ \A v \in Valves : valve_changes[v] < MaxChanges
    /\ \E sv \in {set_valve_status(valve_status, instance)} :
         /\ valve_status' = sv.status
         /\ valve_status_changed' = sv.changed
         /\ valve_changes' = [v \in Valves |->
               valve_changes[v] + (IF sv.status[v] # valve_status[v] THEN 1 ELSE 0)]
    /\ UNCHANGED <<wn, create_copies, pc, t, step_iter, link_status, pyomo_sim_results,
                   pumps_closed, last_tank_head, instance, error, sys, solve_ok,
                   solves_at_t, ctl_opened, runs_left>>

ValveSpec == ValveInit /\ [][SetValveStatusStep]_vars

(***************************************************************************)
(* Properties of the valve state machine.                                  *)
(***************************************************************************)
ValveFlow(v) == instance.flow[v]
UpstreamHead(v) == instance.head[wn.start_node[v]]
DownstreamHead(v) == instance.head[wn.end_node[v]]
Target(v) == wn.setting[v] + wn.elevation[wn.start_node[v]]

\* The inputs under which a valve leaves CLOSED and is sent back to it.
Oscillates(v) ==
    /\ ValveFlow(v) < -Qtol
    /\ UpstreamHead(v) > DownstreamHead(v) + Htol
    /\ DownstreamHead(v) < Target(v) - Htol

\* The transition table as the specification prints it: current status,
\* condition, next status, tried top to bottom.
TransitionTable(v) ==
    << <<"ACTIVE", ValveFlow(v) < -Qtol, "CLOSED">>,
       <<"ACTIVE", UpstreamHead(v) < Target(v) - Htol, "OPEN">>,
       <<"OPEN", ValveFlow(v) < -Qtol, "CLOSED">>,
       <<"OPEN", UpstreamHead(v) > Target(v) + Htol, "ACTIVE">>,
       <<"CLOSED", UpstreamHead(v) > DownstreamHead(v) + Htol
                   /\ UpstreamHead(v) < Target(v) - Htol, "OPEN">>,
       <<"CLOSED", UpstreamHead(v) > DownstreamHead(v) + Htol
                   /\ DownstreamHead(v) < Target(v) - Htol, "ACTIVE">> >>

TableNext(v, status) ==
    LET rows == TransitionTable(v)
        matching == {i \in 1..Len(rows) : rows[i][1] = status /\ rows[i][2]}
    IN  IF matching = {} THEN status
        ELSE rows[CHOOSE i \in matching : \A j \in matching : i <= j][3]

\* C1 (as stated): under constant inputs a valve changes status at most
\* once, whatever the inputs are.
C1_AtMostOneChange ==
    pc = "valve" => \A v \in Valves : valve_changes[v] <= 1

\* C1 (amended): under constant inputs a valve changes status at most once
\* and then stays, unless the flow is below -Qtol while the upstream head
\* exceeds the downstream head by more than Htol and the downstream head is
\* more than Htol below the target; with such inputs no status is a fixed
\* point.
C1_OneChangeUnlessReverseFlow ==
    pc = "valve" =>
        \A v \in Valves :
            /\ ~Oscillates(v) => valve_changes[v] <= 1
            /\ ~Oscillates(v) /\ valve_changes[v] = 1
                  => TableNext(v, valve_status[v]) = valve_status[v]
            /\ Oscillates(v) => TableNext(v, valve_status[v]) # valve_status[v]

\* A valve that changed once and then met the same inputs again unchanged,
\* next to one that is still alternating.
C1_Witness ==
    /\ pc = "valve"
    /\ ~Oscillates("V1") /\ valve_changes["V1"] = 1
    /\ Oscillates("V2") /\ valve_changes["V2"] = MaxChanges

\* C5: one call of _set_valve_status gives every valve the status of the
\* first matching row of the table (or leaves it), with the target taken as
\* setting plus upstream elevation, and returns true exactly when some
\* valve's status differs from its status before the call.
C5_TransitionFunction ==
    [][pc = "valve" =>
          /\ \A v \in Valves : valve_status'[v] = TableNext(v, valve_status[v])
          /\ valve_status_changed' = (valve_status' # valve_status)
          /\ \A v \in Valves :
                (valve_status[v] \in {"OPEN", "ACTIVE"} /\ ValveFlow(v) < -Qtol)
                    => valve_status'[v] = "CLOSED"
          /\ \A v \in Valves :
                (/\ valve_status[v] = "CLOSED"
                 /\ UpstreamHead(v) > DownstreamHead(v) + Htol
                 /\ UpstreamHead(v) < Target(v) - Htol)
                    => valve_status'[v] = "OPEN"]_vars

\* One call closed V1 against a reversed flow although its upstream head was
\* above the target, left V2 alone, and reported a change.
C5_Witness ==
    /\ pc = "valve"
    /\ valve_status_changed
    /\ valve_changes["V1"] = 1 /\ valve_changes["V2"] = 0
    /\ valve_status["V1"] = "CLOSED"
    /\ ValveFlow("V1") < -Qtol
    /\ UpstreamHead("V1") > Target("V1") + Htol

(***************************************************************************)
(* Properties of the retry loop of run_sim.                                *)
(***************************************************************************)
NotConverged == pc = "error" /\ error.kind = "not_converged"
EmittedInstants(results) == Len(results.node_times) \div Cardinality(wn.nodes)

\* C2: the non-convergence error is raised exactly when the retry counter
\* reaches maxiter, that is after maxiter solves in a row of one timestep
\* that each changed a valve; it names that timestep; the counter counts the
\* solves of the current timestep only, and a run that accepted every
\* timestep ends without the error.
C2_NonConvergence ==
    /\ [](/\ NotConverged =>
               /\ step_iter = maxiter
               /\ solves_at_t = maxiter
               /\ valve_status_changed
               /\ error.timestep = t
               /\ sys.t = t
               /\ t < n_timesteps
          /\ pc \in {"idle", "loop", "done", "error"} => step_iter = solves_at_t
          /\ step_iter <= maxiter
          /\ pc = "done" => t = n_timesteps /\ step_iter = 0 /\ error.kind = "none")
    /\ [][pc = "loop" /\ step_iter = maxiter => NotConverged']_vars
    /\ [][NotConverged' /\ pc = "loop" => step_iter = maxiter]_vars

\* The run is stuck at a timestep after the first, whose predecessors were
\* accepted.
C2_Witness ==
    /\ NotConverged
    /\ error.timestep >= 1
    /\ EmittedInstants(pyomo_sim_results) = error.timestep

\* C3: the timestep index advances, and an instant is emitted, only in a
\* pass whose valve evaluation changed nothing; that pass resets the
\* counter, advances the index by one, stores the solved tank heads and
\* appends one record per link and node; so the emitted times are
\* 0, 1, ..., t-1 in this order, once each, and a run that ends normally
\* has emitted n_timesteps instants.
C3_AcceptOnlyUnchanged ==
    /\ [][pc = "loop" /\ (t' # t \/ pyomo_sim_results' # pyomo_sim_results) =>
            /\ ~valve_status_changed'
            /\ valve_status' = valve_status
            /\ step_iter' = 0
            /\ t' = t + 1
            /\ last_tank_head' = [n \in Tanks |-> instance'.head[n]]
            /\ Len(pyomo_sim_results'.link_times)
                  = Len(pyomo_sim_results.link_times) + Cardinality(wn.links)
            /\ Len(pyomo_sim_results'.node_times)
                  = Len(pyomo_sim_results.node_times) + Cardinality(wn.nodes)]_vars
    /\ [][pc = "loop" /\ pc' = "loop" /\ valve_status_changed' =>
            t' = t /\ pyomo_sim_results' = pyomo_sim_results]_vars
    /\ [](pc \in {"idle", "loop", "done", "error"} =>
            /\ pyomo_sim_results.link_times =
                  [i \in 1..(t * Cardinality(wn.links)) |->
                        (i - 1) \div Cardinality(wn.links)]
            /\ pyomo_sim_results.node_times =
                  [i \in 1..(t * Cardinality(wn.nodes)) |->
                        (i - 1) \div Cardinality(wn.nodes)]
            /\ \A i \in 1..Len(pyomo_sim_results.link_name) :
                  pyomo_sim_results.link_name[i] =
                      wn.link_order[((i - 1) % Cardinality(wn.links)) + 1]
            /\ \A i \in 1..Len(pyomo_sim_results.node_name) :
                  pyomo_sim_results.node_name[i] =
                      wn.node_order[((i - 1) % Cardinality(wn.nodes)) + 1]
            /\ (pc = "done" => EmittedInstants(pyomo_sim_results) = n_timesteps))

\* A run ended normally with every instant emitted and the last valve
\* evaluation unchanged.
C3_Witness ==
    /\ pc = "done"
    /\ ~valve_status_changed
    /\ EmittedInstants(pyomo_sim_results) = n_timesteps
    /\ \E v \in Valves : valve_status[v] # "ACTIVE"

\* C4: with every solver call returning, a run ends, normally with the
\* index at n_timesteps or with an error; the index never goes back and no
\* timestep is solved more than maxiter times.
C4_Terminates ==
    /\ <>(pc \in {"done", "error"})
    /\ [](pc = "done" => t = n_timesteps)
    /\ [](solves_at_t <= maxiter)
    /\ [](pc = "loop" /\ t < n_timesteps /\ ~valve_status_changed
              => solves_at_t = 0)
    /\ [][t' >= t /\ (t' # t => solves_at_t < maxiter)]_vars

\* A timestep that has been solved maxiter times.
C4_Witness ==
    /\ pc = "loop"
    /\ solves_at_t = maxiter
    /\ t = n_timesteps - 1

(***************************************************************************)
(* Properties of the conditional controls.                                 *)
(***************************************************************************)
\* The schedule of link k has been overwritten by an open rule.
Overridden(k) == link_status[k] # wn.is_link_open[k]

\* Some open rule of link k has its tank-level condition true at the heads h.
OpenTriggerHolds(k, h) ==
    LET value == wn.conditional_controls[k]
    IN  \/ \E i \in 1..Len(value.open_below) :
              h[value.open_below[i].node] - wn.elevation[value.open_below[i].node]
                  <= value.open_below[i].value
        \/ \E i \in 1..Len(value.open_above) :
              h[value.open_above[i].node] - wn.elevation[value.open_above[i].node]
                  >= value.open_above[i].value

\* C6: a link of base status CLOSED that an open rule has re-opened, and
\* that no closed rule has closed since, is absent from the closed links
\* of every later solve of the run.
C6_ReopenedStaysOpen ==
    (pc \in {"loop", "done", "error"} /\ sys.built) =>
        \A k \in ctl_opened : ~InSeq(k, sys.links_closed)

\* What the code keeps of C6: the schedule of a link is rewritten only for
\* a link of base status CLOSED that the schedule had closed when the rule
\* fired, at some timestep t0, and is open from t0 on; such a link is among
\* the closed links of a later solve only if a closed rule has put it in
\* pumps_closed.
C6_PermanentReopen ==
    (pc \in {"loop", "done", "error"} /\ sys.built) =>
        \A k \in wn.links :
            Overridden(k) =>
                /\ wn.base_status[k] = "CLOSED"
                /\ \E t0 \in 1..sys.t :
                      /\ ~wn.is_link_open[k][t0 + 1]
                      /\ \A i \in 1..n_timesteps :
                            link_status[k][i] = (i > t0 \/ wn.is_link_open[k][i])
                /\ InSeq(k, sys.links_closed) => InSeq(k, pumps_closed)

(***************************************************************************)
(* Properties of the systems and the solves.                               *)
(***************************************************************************)
RECURSIVE SumFlows(_, _)
SumFlows(flow, ls) ==
    IF ls = {} THEN 0
    ELSE LET l == CHOOSE x \in ls : TRUE
         IN  flow[l] + SumFlows(flow, ls \ {l})

NetInflow(flow, n) ==
    SumFlows(flow, {l \in wn.links : wn.end_node[l] = n})
    - SumFlows(flow, {l \in wn.links : wn.start_node[l] = n})

OutflowTerm(n) ==
    IF wn.node_type[n] = "Junction" THEN wn.demand[n][sys.t + 1]
    ELSE IF wn.node_type[n] = "Tank" THEN instance.tank_net_inflow[n]
    ELSE instance.reservoir_demand[n]

\* C7: in every instant the driver solved, at every node the flows of the
\* links ending there minus the flows of the links starting there equal the
\* node's outflow term (demand of the timestep, tank net inflow, reservoir
\* outflow), whatever links are closed and whatever the valve statuses; the
\* full-horizon system has the balance of every node at every instant.
C7_MassBalance ==
    /\ (pc \in {"loop", "done", "error"} /\ sys.built /\ solve_ok) =>
          /\ \A n \in wn.nodes : NetInflow(instance.flow, n) = OutflowTerm(n)
          /\ \A n \in wn.nodes : Con("mass_balance", NoName, n, 0, 0) \in sys.cons
    /\ (pc = "loop" /\ build_hydraulic_model(TRUE).error = "none") =>
          \A tt \in 0..(n_timesteps - 1), n \in wn.nodes :
              [t |-> tt, con |-> Con("mass_balance", NoName, n, 0, 0)]
                  \in build_hydraulic_model(TRUE).cons

\* A solved instant with the pump closed, the valve not active and water
\* moving through the pipe.
C7_Witness ==
    /\ pc = "loop" /\ sys.built /\ solve_ok
    /\ InSeq("PU1", sys.links_closed)
    /\ sys.valve_status["V1"] # "ACTIVE"
    /\ instance.flow["P1"] # 0
    /\ sys.t >= 1

\* The relations the full-horizon system has at instant tt.
FullRelationsAt(tt) ==
    { x.con : x \in { y \in build_hydraulic_model(TRUE).cons : y.t = tt } }

\* The relations build_hydraulic_model_at_instant gave the solved instant.
InstantRelations == { c \in sys.cons : c.kind # "valve_headloss" }

\* C8: without conditional controls and with every valve still in its
\* initial status, the system of a solved instant has the relations the
\* full-horizon system has at that instant.
C8_SameRelations ==
    (/\ pc \in {"loop", "done"} /\ sys.built
     /\ wn.conditional_controls = NoControls
     /\ \A v \in Valves : sys.valve_status[v] = "ACTIVE" /\ valve_status[v] = "ACTIVE")
        => InstantRelations = FullRelationsAt(sys.t)

\* C9: after a solve the solver reported as failed the driver has stopped
\* with an error, has evaluated no valve transition from the values, has
\* not taken tank heads from them and has emitted nothing for the instant.
C9_FailureNotUsed ==
    (pc \in {"loop", "done", "error"} /\ sys.built /\ ~solve_ok) =>
        /\ pc = "error"
        /\ valve_status = sys.valve_status
        /\ last_tank_head = sys.last_tank_head
        /\ EmittedInstants(pyomo_sim_results) <= sys.t

(***************************************************************************)
(* Properties of the check-valve test.                                     *)
(***************************************************************************)
HasCheckValve == \E l \in wn.links : wn.base_status[l] \in SpellingsOfCV

\* C10: with a link of base status CV, in any case of the letters, both
\* builders raise before creating a variable or a constraint, and run_sim
\* stops at its first build: nothing is solved or emitted, no valve status
\* and no schedule entry changes.
C10_CheckValveRejected ==
    (pc \in {"idle", "loop", "done", "error"} /\ HasCheckValve) =>
        /\ build_hydraulic_model(TRUE).error = "check_valve"
        /\ ~build_hydraulic_model(TRUE).variables
        /\ build_hydraulic_model(TRUE).cons = {}
        /\ \A first \in BOOLEAN :
              LET m == build_hydraulic_model_at_instant(
                           [n \in Tanks |-> 0], [n \in Junctions |-> 0],
                           first, <<>>, TRUE)
              IN  m.error = "check_valve" /\ ~m.variables /\ m.cons = {}
        /\ pc # "done"
        /\ pc = "error" => error.kind = "check_valve" /\ error.timestep = 0
        /\ ~sys.built
        /\ t = 0 /\ step_iter = 0 /\ solves_at_t = 0
        /\ pyomo_sim_results = EmptyResults
        /\ valve_status = [v \in Valves |-> "ACTIVE"]
        /\ link_status = wn.is_link_open

\* run_sim has stopped at the first build of a network whose pipe has base
\* status CV spelled with a lower-case letter.
C10_Witness ==
    /\ pc = "error"
    /\ error.kind = "check_valve"
    /\ wn.base_status["P1"] \in SpellingsOfCV \ {"CV"}

(***************************************************************************)
(* Properties of the state a simulator keeps between runs.                 *)
(***************************************************************************)
\* run_sim has been called and has not built a system yet.
RunStarting == pc = "loop" /\ ~sys.built

\* C11: every call of run_sim, a second call after a run that ended or
\* raised included, starts with every valve ACTIVE, the schedule of the
\* network's time controls and no result records.
C11_FreshStart ==
    RunStarting =>
        /\ valve_status = [v \in Valves |-> "ACTIVE"]
        /\ link_status = wn.is_link_open
        /\ pyomo_sim_results = EmptyResults

(***************************************************************************)
(* Properties of the tank heads.                                           *)
(***************************************************************************)
TankHeadInBounds(n, h) ==
    /\ wn.elevation[n] + wn.min_level[n] <= h
    /\ h <= wn.elevation[n] + wn.max_level[n]

\* The last pass of the loop accepted and emitted the instant it solved,
\* and the solver had reported success.
AcceptedSolved ==
    /\ pc \in {"loop", "done"} /\ sys.built /\ solve_ok
    /\ t = sys.t + 1
    /\ EmittedInstants(pyomo_sim_results) = t

\* Some tank has its bounds constraint in the system handed to the solver.
TankBoundsActive == \E c \in sys.cons : c.kind = "tank_head_bounds"

\* C12: where the tank bounds constraints are active in the system that is
\* solved, the driver never accepts and emits an instant in which the head
\* of a tank lies outside [elevation + min_level, elevation + max_level]; a
\* tank drained below its minimum level makes the run fail instead.
C12_TankHeadWithinBounds ==
    (AcceptedSolved /\ TankBoundsActive) =>
        \A n \in Tanks :
            /\ last_tank_head[n] = instance.head[n]
            /\ TankHeadInBounds(n, instance.head[n])

\* No system of run_sim has a tank bounds constraint: the constraint is
\* declared by the full-horizon builder alone.
C12_BoundsNeverActive ==
    /\ sys.built => ~TankBoundsActive
    /\ (pc = "loop" /\ build_hydraulic_model(TRUE).error = "none") =>
          \A n \in Tanks : \A tt \in 0..(n_timesteps - 1) :
              [t |-> tt, con |-> Con("tank_head_bounds", NoName, n, 0, 0)]
                  \in build_hydraulic_model(TRUE).cons

(***************************************************************************)
(* Properties of the pins.                                                 *)
(***************************************************************************)
AdjacentValves(n) ==
    {v \in Valves : wn.start_node[v] = n \/ wn.end_node[v] = n}

\* C13: in every system run_sim hands to the solver, at every timestep and
\* every retry, the head of each reservoir is fixed to the reservoir's base
\* head, also when a valve is adjacent to the reservoir, and the values the
\* solver returns keep it.
C13_ReservoirHeadPin ==
    (pc \in {"loop", "done", "error"} /\ sys.built) =>
        \A r \in Reservoirs :
            /\ sys.head_fixed[r]
            /\ sys.head_value[r] = wn.base_head[r]
            /\ instance.head[r] = wn.base_head[r]

\* A system has been solved in which an ACTIVE valve starts at the
\* reservoir, and the solve returned the base head for the reservoir.
C13_Witness ==
    /\ sys.built /\ solve_ok /\ solves_at_t > 0
    /\ \E r \in Reservoirs : \E v \in AdjacentValves(r) :
          /\ sys.valve_status[v] = "ACTIVE"
          /\ wn.end_node[v] \in sys.on_model.head_fixed
          /\ sys.head_fixed[r]
          /\ instance.head[r] = wn.base_head[r]

(***************************************************************************)
(* Properties of the closed links of an instant.                           *)
(***************************************************************************)
\* The link is closed at the timestep by the schedule the simulator holds.
ScheduledClosed(status, l, tt) == ~status[l][tt + 1]

\* C14 (as stated): the closed links of every system built at a timestep
\* t > 0 contain every link whose schedule entry at t is closed and every
\* link in the list of conditional closures.
C14_AdditiveClosures ==
    (pc \in {"loop", "done", "error"} /\ sys.built /\ sys.t >= 1) =>
        \A l \in wn.links :
            (ScheduledClosed(link_status, l, sys.t) \/ InSeq(l, pumps_closed))
                => InSeq(l, sys.links_closed)

\* Some rule of the list has its tank-level condition true at the heads h.
AnyRuleHolds(rules, h, below) ==
    \E i \in 1..Len(rules) :
        LET level == h[rules[i].node] - wn.elevation[rules[i].node]
        IN  IF below THEN level <= rules[i].value ELSE level >= rules[i].value

\* Whether link k is in the conditional closed list after each of the four
\* categories, taken once each in the order open_below, closed_above,
\* open_above, closed_below, from its membership c0 before the call.
AfterOpenBelow(k, h, c0) ==
    c0 /\ ~AnyRuleHolds(wn.conditional_controls[k].open_below, h, TRUE)
AfterClosedAbove(k, h, c0) ==
    AfterOpenBelow(k, h, c0)
        \/ AnyRuleHolds(wn.conditional_controls[k].closed_above, h, FALSE)
AfterOpenAbove(k, h, c0) ==
    AfterClosedAbove(k, h, c0)
        /\ ~AnyRuleHolds(wn.conditional_controls[k].open_above, h, FALSE)
AfterClosedBelow(k, h, c0) ==
    AfterOpenAbove(k, h, c0)
        \/ AnyRuleHolds(wn.conditional_controls[k].closed_below, h, TRUE)

\* An open rule of link k fires in the call: the link is in the conditional
\* closed list when the category is reached and a rule of it holds.
OpenRuleFires(k, h, c0) ==
    \/ c0 /\ AnyRuleHolds(wn.conditional_controls[k].open_below, h, TRUE)
    \/ AfterClosedAbove(k, h, c0)
          /\ AnyRuleHolds(wn.conditional_controls[k].open_above, h, FALSE)

\* An open rule of link l fires in the call of the control engine made with
\* the conditional closures c and the heads h: the link is in the list of
\* conditional closures when the rule is reached and the tank-level
\* condition of the rule holds.
OpenRuleFiresOn(l, h, c) ==
    l \in DOMAIN wn.conditional_controls /\ OpenRuleFires(l, h, InSeq(l, c))

\* C14 (amended): the closed links of a system built at a timestep t > 0
\* are the links the control engine leaves in the list of conditional
\* closures, together with the links whose schedule entry at t is closed
\* and of which no open rule fired in this call of the engine; no other
\* link is closed.  A link whose open rule fired is closed in the instant
\* only if a closed rule later in the same call put it back in the list.
C14_ClosuresUnlessOpened ==
    [][(pc = "loop" /\ pc' = "loop" /\ LoopGuard(t, step_iter) /\ t >= 1) =>
          /\ sys'.built /\ sys'.t = t
          /\ \A l \in wn.links :
                /\ InSeq(l, sys'.links_closed) =
                      (\/ InSeq(l, pumps_closed')
                       \/ (ScheduledClosed(link_status, l, t)
                             /\ ~OpenRuleFiresOn(l, instance.head, pumps_closed)))
                /\ (l \notin Valves \/ valve_status[l] # "CLOSED")
                      => sys'.flow_fixed[l] = InSeq(l, sys'.links_closed)]_vars

\* The pump, of base status OPEN, is closed at the last timestep by its
\* time control alone: the tank is below the level of its rules.
C14_Witness ==
    /\ pc = "loop" /\ sys.built /\ sys.t = n_timesteps - 1
    /\ "PU1" \in wn.links /\ wn.base_status["PU1"] = "OPEN"
    /\ ScheduledClosed(link_status, "PU1", sys.t)
    /\ ~InSeq("PU1", pumps_closed)
    /\ InSeq("PU1", sys.links_closed)
    /\ sys.flow_fixed["PU1"]

(***************************************************************************)
(* Properties of the pump characterisations.                               *)
(***************************************************************************)
UnknownPumps == {l \in Pumps : wn.info_type[l] \notin {"HEAD", "POWER"}}

\* C16: for a network with a pump that is neither a head-curve nor a
\* fixed-power pump, both builders fail with an error that names the pump,
\* whether the pump is closed or not, and run_sim stops at its first build.
C16_UnknownPumpRejected ==
    (pc \in {"loop", "done", "error"} /\ UnknownPumps # {}) =>
        /\ \A first \in BOOLEAN, closed \in {<<>>} \cup {<<l>> : l \in UnknownPumps} :
              LET m == build_hydraulic_model_at_instant(
                           [n \in Tanks |-> 0], [n \in Junctions |-> 0],
                           first, closed, TRUE)
              IN  m.error = "pump_info_type" /\ m.error_link \in UnknownPumps
        /\ pc # "done"
        /\ pc = "error" => error.kind = "pump_info_type" /\ error.link \in UnknownPumps
        /\ ~sys.built
        /\ build_hydraulic_model(TRUE).error = "pump_info_type"
        /\ build_hydraulic_model(TRUE).error_link \in UnknownPumps

(***************************************************************************)
(* Properties of a rejected solve.                                         *)
(***************************************************************************)
\* The step is a pass of the loop whose valve evaluation reported a change.
RejectingPass == pc = "loop" /\ pc' = "loop" /\ valve_status_changed'

\* C17: a pass whose valve evaluation reports a change adds one to the
\* retry counter and leaves the timestep index, the tank heads of the last
\* accepted instant and the result records as they were; the valve statuses
\* differ.  (At timestep 0 the tank heads are the initial heads, set at the
\* top of every pass.)
C17_RetryInPlace ==
    [][RejectingPass =>
          /\ step_iter' = step_iter + 1
          /\ t' = t
          /\ pyomo_sim_results' = pyomo_sim_results
          /\ last_tank_head' = sys'.last_tank_head
          /\ (t >= 1 \/ solves_at_t >= 1) => last_tank_head' = last_tank_head
          /\ t = 0 => last_tank_head' =
                         [n \in Tanks |-> wn.elevation[n] + wn.init_level[n]]
          /\ valve_status' # valve_status
          /\ sys'.valve_status = valve_status]_vars

\* A solve of a timestep after the first has been rejected: its tank head
\* differs from the head of the last accepted instant, which is kept.
C17_Witness ==
    /\ pc = "loop" /\ valve_status_changed /\ sys.built
    /\ t >= 1 /\ sys.t = t /\ step_iter >= 1
    /\ \E n \in Tanks : instance.head[n] # last_tank_head[n]
    /\ last_tank_head = sys.last_tank_head
    /\ EmittedInstants(pyomo_sim_results) = t

\* The step is a pass of the loop that solves again a timestep whose last
\* solve was rejected.
RetryPass ==
    /\ pc = "loop" /\ pc' = "loop"
    /\ LoopGuard(t, step_iter)
    /\ step_iter >= 1 /\ sys.built /\ sys.t = t

\* C18: a retry uses the required demands and the closed links of the
\* attempt before it, and hence of the first attempt at the timestep: the
\* conditional controls are not evaluated again on the rejected solve, so
\* the conditional closures and the schedule stay as they were.
C18_RetryKeepsClosures ==
    [][RetryPass =>
          /\ sys'.t = t
          /\ sys'.demand_required = sys.demand_required
          /\ sys'.links_closed = sys.links_closed
          /\ pumps_closed' = pumps_closed
          /\ link_status' = link_status]_vars

(***************************************************************************)
(* Properties of the rules of the conditional controls.                    *)
(***************************************************************************)
\* Some closed rule of link k has its tank-level condition true at the heads h.
CloseTriggerHolds(k, h) ==
    LET value == wn.conditional_controls[k]
    IN  \/ \E i \in 1..Len(value.closed_above) :
              h[value.closed_above[i].node] - wn.elevation[value.closed_above[i].node]
                  >= value.closed_above[i].value
        \/ \E i \in 1..Len(value.closed_below) :
              h[value.closed_below[i].node] - wn.elevation[value.closed_below[i].node]
                  <= value.closed_below[i].value

\* The step is a pass of the loop at a timestep after the first, in which
\* the conditional controls are evaluated on the heads of `instance`.
ControlledPass ==
    pc = "loop" /\ pc' = "loop" /\ LoopGuard(t, step_iter) /\ t >= 1

\* C19: when an open rule of a link has its condition true and the link is
\* closed, by the schedule or by the conditional closures, the link is not
\* among the closed links of the instant, and if its base status is CLOSED
\* its schedule is open from the current timestep on.  (Stated for the
\* evaluations in which no closed rule of the link has its condition true.)
C19_OpenRules ==
    [][ControlledPass =>
          \A l \in DOMAIN wn.conditional_controls :
              (/\ OpenTriggerHolds(l, instance.head)
               /\ ~CloseTriggerHolds(l, instance.head)
               /\ (ScheduledClosed(link_status, l, t) \/ InSeq(l, pumps_closed)))
                  => /\ ~InSeq(l, sys'.links_closed)
                     /\ ~InSeq(l, pumps_closed')
                     /\ wn.base_status[l] = "CLOSED" =>
                            \A i \in (t + 1)..n_timesteps : link_status'[l][i]]_vars

NoDuplicates(seq) == \A i, j \in 1..Len(seq) : seq[i] = seq[j] => i = j

\* The number of times k occurs in seq.
Occurrences(seq, k) == Cardinality({i \in 1..Len(seq) : seq[i] = k})

\* One closed rule of link k applied to the lists of the state, at the
\* heads of `instance`.
OneCloseRule(k, rule, above) ==
    close_rules([ pumps_closed |-> pumps_closed,
                  pipes_closed |-> SelectSeq(wn.link_order,
                                             LAMBDA l : ~link_status[l][t + 1]),
                  link_status |-> link_status, opened |-> {} ],
                instance, k, <<rule>>, above)

\* What C20 says of one closed rule of link k, whose condition is `holds`.
CloseRuleAsStated(k, rule, above, holds) ==
    LET res == OneCloseRule(k, rule, above)
    IN  /\ (holds /\ ~InSeq(k, pumps_closed))
              => res.pumps_closed = Append(pumps_closed, k)
        /\ (~holds \/ InSeq(k, pumps_closed))
              => res.pumps_closed = pumps_closed
        /\ Occurrences(res.pumps_closed, k) <= 1
        /\ res.link_status = link_status
        /\ res.pipes_closed = SelectSeq(wn.link_order,
                                        LAMBDA l : ~link_status[l][t + 1])

\* C20: a closed_above rule whose tank is at or above the threshold, or a
\* closed_below rule whose tank is at or below it, appends a link that is
\* not in the list of conditional closures to that list, once; a rule whose
\* condition does not hold, or whose link is in the list already, leaves
\* the list as it is; no link is ever in the list twice, and over a whole
\* evaluation a link enters the list only if one of its closed rules has
\* its condition true, and is in it afterwards if one has and no open rule
\* of the link has.
C20_CloseRules ==
    /\ [](pc \in {"loop", "done", "error"} => NoDuplicates(pumps_closed))
    /\ []((pc = "loop" /\ t >= 1 /\ t < n_timesteps) =>
            \A k \in DOMAIN wn.conditional_controls :
                LET value == wn.conditional_controls[k]
                IN  /\ \A i \in 1..Len(value.closed_above) :
                          CloseRuleAsStated(k, value.closed_above[i], TRUE,
                              current_tank_level(instance, value.closed_above[i].node)
                                  >= value.closed_above[i].value)
                    /\ \A i \in 1..Len(value.closed_below) :
                          CloseRuleAsStated(k, value.closed_below[i], FALSE,
                              current_tank_level(instance, value.closed_below[i].node)
                                  <= value.closed_below[i].value))
    /\ [][ControlledPass =>
            \A k \in DOMAIN wn.conditional_controls :
                /\ (InSeq(k, pumps_closed') /\ ~InSeq(k, pumps_closed))
                      => CloseTriggerHolds(k, instance.head)
                /\ (CloseTriggerHolds(k, instance.head)
                       /\ ~OpenTriggerHolds(k, instance.head))
                      => /\ InSeq(k, pumps_closed')
                         /\ InSeq(k, sys'.links_closed)
                /\ (~CloseTriggerHolds(k, instance.head)
                       /\ ~OpenTriggerHolds(k, instance.head))
                      => (InSeq(k, pumps_closed') <=> InSeq(k, pumps_closed))]_vars

\* A closed rule has put the pump, which was open, in the list of
\* conditional closures, and the condition of the rule holds again at the
\* next evaluation, where the pump is in the list already.
C20_Witness ==
    /\ pc = "loop" /\ sys.built /\ t = sys.t + 1 /\ t >= 2 /\ t < n_timesteps
    /\ pumps_closed = <<"PU1">>
    /\ wn.is_link_open["PU1"][sys.t + 1]
    /\ CloseTriggerHolds("PU1", instance.head)
    /\ ~OpenTriggerHolds("PU1", instance.head)

(***************************************************************************)
(* Properties of the order of the rules within one evaluation.             *)
(***************************************************************************)
\* C21: one call of the control engine takes the four categories of every
\* link once each, in the order open_below, closed_above, open_above,
\* closed_below: the link is in the conditional closed list afterwards
\* exactly as that single pass leaves it (a link opened by open_below is
\* closed again only by a closed rule that follows, one opened by
\* open_above only by closed_below), a scheduled closure is dropped exactly
\* when an open rule fired, and the result is a function of the tank
\* levels and the two lists.
C21_RuleOrder ==
    [][ControlledPass =>
          \A k \in DOMAIN wn.conditional_controls :
              LET c0 == InSeq(k, pumps_closed)
                  h == instance.head
              IN  /\ InSeq(k, pumps_closed') = AfterClosedBelow(k, h, c0)
                  /\ InSeq(k, sys'.links_closed) =
                        (\/ AfterClosedBelow(k, h, c0)
                         \/ (ScheduledClosed(link_status, k, t)
                               /\ ~OpenRuleFires(k, h, c0)))
                  /\ Occurrences(pumps_closed', k) <= 1]_vars

\* The call about to be made opens the pump by its open_below rule and
\* closes it again by its closed_above rule: the pump is in the conditional
\* closed list before and after, and an open rule has removed it between.
C21_Witness ==
    /\ pc = "loop" /\ LoopGuard(t, step_iter) /\ t >= 2 /\ sys.built
    /\ InSeq("PU1", pumps_closed)
    /\ AnyRuleHolds(wn.conditional_controls["PU1"].open_below, instance.head, TRUE)
    /\ AnyRuleHolds(wn.conditional_controls["PU1"].closed_above, instance.head, FALSE)
    /\ "PU1" \in GatherInstant.opened
    /\ GatherInstant.pumps_closed = <<"PU1">>

(***************************************************************************)
(* Properties of when the conditional controls are evaluated.              *)
(***************************************************************************)
\* The step is a pass of the loop at the first timestep that reaches the
\* solver.
FirstTimestepPass ==
    pc = "loop" /\ pc' = "loop" /\ LoopGuard(t, step_iter) /\ t = 0

\* C22: in every pass of timestep 0, first attempt or retry, the
\* conditional controls are not evaluated: the conditional closed list is
\* empty before and after, the schedule is not rewritten and the closed
\* links of the system are exactly the links the schedule closes at
\* timestep 0.  In every pass of a timestep t >= 1 the system is built from
\* the closed links the control engine returns for the heads of the last
\* solve.
C22_ControlsAfterFirstTimestep ==
    /\ [][FirstTimestepPass =>
             /\ pumps_closed = <<>> /\ pumps_closed' = <<>>
             /\ link_status' = link_status
             /\ sys'.first_timestep
             /\ sys'.links_closed =
                   SelectSeq(wn.link_order, LAMBDA l : ScheduledClosed(link_status, l, 0))]_vars
    /\ [][ControlledPass =>
             LET time_closed == SelectSeq(wn.link_order,
                                   LAMBDA l : ScheduledClosed(link_status, l, t))
                 cc == apply_conditional_controls(instance, pumps_closed,
                                                  time_closed, link_status, t)
             IN  /\ pumps_closed' = cc.pumps_closed
                 /\ link_status' = cc.link_status
                 /\ ~sys'.first_timestep
                 /\ sys'.links_closed = cc.pipes_closed \o cc.pumps_closed]_vars

\* A retry of timestep 0 is about to be made on a network where a closed
\* rule holds at the heads of the rejected solve.
C22_Witness ==
    /\ pc = "loop" /\ LoopGuard(t, step_iter) /\ t = 0 /\ step_iter >= 1
    /\ sys.built /\ sys.t = 0 /\ sys.first_timestep
    /\ pumps_closed = <<>>
    /\ \E k \in DOMAIN wn.conditional_controls : CloseTriggerHolds(k, instance.head)

(***************************************************************************)
(* Properties of the flows of closed links.                                *)
(***************************************************************************)
\* C23: in every system handed to the solver, the flow of a link is fixed
\* exactly when the link is among the combined closed links of the pass or
\* is a valve whose status before the solve is CLOSED, and what the solver
\* leaves behind has flow 0 in every such link.
C23_ClosedLinksNoFlow ==
    [][(pc = "loop" /\ pc' = "loop" /\ LoopGuard(t, step_iter)) =>
          \A l \in wn.links :
              LET shut == \/ InSeq(l, GatherInstant.links_closed)
                          \/ (l \in Valves /\ valve_status[l] = "CLOSED")
              IN  /\ sys'.flow_fixed[l] = shut
                  /\ shut => instance'.flow[l] = 0]_vars

\* The statement of C23 where create() returns the model itself.
C23_WhereCreateReturnsTheModel ==
    [][(~create_copies /\ pc = "loop" /\ pc' = "loop" /\ LoopGuard(t, step_iter)) =>
          \A l \in wn.links :
              LET shut == \/ InSeq(l, GatherInstant.links_closed)
                          \/ (l \in Valves /\ valve_status[l] = "CLOSED")
              IN  /\ sys'.flow_fixed[l] = shut
                  /\ shut => instance'.flow[l] = 0]_vars

\* The part of C23 that is about the combined closed links: the flow of
\* every link among them is fixed and is 0 in what the solver leaves, and
\* no link is fixed that is neither among them nor a valve of status CLOSED.
C23_ClosedSetFlowFixed ==
    [][(pc = "loop" /\ pc' = "loop" /\ LoopGuard(t, step_iter)) =>
          \A l \in wn.links :
              /\ InSeq(l, GatherInstant.links_closed)
                    => (sys'.flow_fixed[l] /\ instance'.flow[l] = 0)
              /\ sys'.flow_fixed[l]
                    => \/ InSeq(l, GatherInstant.links_closed)
                       \/ (l \in Valves /\ valve_status[l] = "CLOSED")]_vars

(***************************************************************************)
(* Properties of the valve constraints of a solve.                         *)
(***************************************************************************)
\* The step is a pass of the loop whose system reaches the solver: sys is
\* the system of the last solve, and it is written by such a pass alone.  A
\* pass never rebuilds the system it found: a retry has another valve
\* status than the solve before it, and an accepted solve is followed by
\* another timestep.
SolvedPass ==
    pc = "loop" /\ LoopGuard(t, step_iter) /\ sys' # sys

\* Another reason than valve v for the head of node n being fixed in s.
PinnedOtherwise(s, n, v) ==
    \/ n \in Reservoirs
    \/ s.first_timestep /\ n \in Tanks
    \/ \E w \in Valves \ {v} : s.valve_status[w] = "ACTIVE" /\ wn.end_node[w] = n

\* C24: the valve statuses change only in the state-machine evaluation that
\* follows a solve, and every solve constrains each valve by the status
\* held just before it (the one the latest evaluation left, or the one the
\* simulator held when the run began).  For an ACTIVE valve the head of the
\* downstream node is fixed to pressure_setting + elevation of that node,
\* no head-loss relation of the valve is present and the flow is fixed only
\* if the valve is among the closed links.  For an OPEN valve the head-loss
\* relation of the valve is present, the valve fixes no head and its flow
\* is fixed only if it is among the closed links.
C24_ValveConstraintsFollowStatus ==
    /\ [][valve_status' # valve_status =>
             /\ SolvedPass
             /\ valve_status' = set_valve_status(valve_status, instance').status]_vars
    /\ [][SolvedPass =>
             \A v \in Valves :
                 LET e == wn.end_node[v]
                     headloss == Con("valve_headloss", v, NoName, 0, 0)
                 IN  /\ sys'.valve_status[v] = valve_status[v]
                     /\ valve_status[v] = "ACTIVE" =>
                           /\ sys'.head_fixed[e]
                           /\ sys'.head_value[e] = wn.setting[v] + wn.elevation[e]
                           /\ instance'.head[e] = wn.setting[v] + wn.elevation[e]
                           /\ headloss \notin sys'.cons
                           /\ sys'.flow_fixed[v] = InSeq(v, sys'.links_closed)
                     /\ valve_status[v] = "OPEN" =>
                           /\ headloss \in sys'.cons
                           /\ sys'.head_fixed[e] => PinnedOtherwise(sys', e, v)
                           /\ sys'.flow_fixed[v] = InSeq(v, sys'.links_closed)
                     /\ valve_status[v] # "OPEN" => headloss \notin sys'.cons]_vars

\* The statement of C24 about the constraints, where create() returns the
\* model itself.
C24_WhereCreateReturnsTheModel ==
    [][(~create_copies /\ SolvedPass) =>
          \A v \in Valves :
              LET e == wn.end_node[v]
                  headloss == Con("valve_headloss", v, NoName, 0, 0)
              IN  /\ valve_status[v] = "ACTIVE" =>
                        /\ sys'.head_fixed[e]
                        /\ sys'.head_value[e] = wn.setting[v] + wn.elevation[e]
                        /\ instance'.head[e] = wn.setting[v] + wn.elevation[e]
                        /\ headloss \notin sys'.cons
                        /\ sys'.flow_fixed[v] = InSeq(v, sys'.links_closed)
                  /\ valve_status[v] = "OPEN" =>
                        /\ headloss \in sys'.cons
                        /\ sys'.head_fixed[e] => PinnedOtherwise(sys', e, v)
                        /\ sys'.flow_fixed[v] = InSeq(v, sys'.links_closed)
                  /\ valve_status[v] # "OPEN" => headloss \notin sys'.cons]_vars

\* The part of C24 that is about the statuses: they change only in the
\* state-machine evaluation that follows a solve, which is given the status
\* held just before the solve.
C24_StatusFollowsEvaluation ==
    [][valve_status' # valve_status =>
          /\ SolvedPass
          /\ sys'.valve_status = valve_status
          /\ valve_status' = set_valve_status(valve_status, instance').status]_vars

(***************************************************************************)
(* Properties of the constraints of closed links.                          *)
(***************************************************************************)
\* C25: in every system of an instant, a link of the closed-link set has no
\* constraint of its own (no pipe head-loss, pump or valve head-loss
\* relation) and, if it is a valve, does not fix the head of its
\* downstream node: all it does is have its flow fixed.
C25_ClosedLinksUnconstrained ==
    sys.built =>
        \A l \in wn.links :
            InSeq(l, sys.links_closed) =>
                /\ sys.flow_fixed[l]
                /\ \A c \in sys.cons : c.link # l
                /\ (l \in Valves /\ sys.head_fixed[wn.end_node[l]])
                      => PinnedOtherwise(sys, wn.end_node[l], l)

\* The statement of C25 where create() returns a copy of the model.
C25_WhereCreateCopies == create_copies => C25_ClosedLinksUnconstrained

\* The part of C25 that is about pipes and pumps.
C25_ClosedPipesAndPumps ==
    sys.built =>
        \A l \in wn.links \ Valves :
            InSeq(l, sys.links_closed) =>
                sys.flow_fixed[l] /\ \A c \in sys.cons : c.link # l

(***************************************************************************)
(* Properties of the tank heads of a system.                               *)
(***************************************************************************)
TankDynamics(n) == Con("tank_dynamics", NoName, n, 0, -1)

\* C26: in every system of timestep 0, first attempt or retry, the head of
\* every tank is fixed to elevation + init_level and there is no
\* tank-dynamics constraint, whatever the statuses of the valves; in every
\* system of a timestep t >= 1 the head of every tank is free and its
\* tank-dynamics constraint is present.
C26_FirstInstantTankPin ==
    sys.built =>
        \A n \in Tanks :
            IF sys.t = 0
            THEN /\ sys.head_fixed[n]
                 /\ sys.head_value[n] = wn.elevation[n] + wn.init_level[n]
                 /\ TankDynamics(n) \notin sys.cons
            ELSE /\ ~sys.head_fixed[n]
                 /\ TankDynamics(n) \in sys.cons

\* The statement of C26 where create() returns a copy of the model.
C26_WhereCreateCopies == create_copies => C26_FirstInstantTankPin

\* The statement of C26 for the tanks at which no valve of status ACTIVE
\* ends.
C26_TankPinWithoutActiveValve ==
    sys.built =>
        \A n \in Tanks :
            (\A v \in Valves : ~(sys.valve_status[v] = "ACTIVE" /\ wn.end_node[v] = n))
            => IF sys.t = 0
               THEN /\ sys.head_fixed[n]
                    /\ sys.head_value[n] = wn.elevation[n] + wn.init_level[n]
                    /\ TankDynamics(n) \notin sys.cons
               ELSE /\ ~sys.head_fixed[n]
                    /\ TankDynamics(n) \in sys.cons

(***************************************************************************)
(* Properties of the tank heads carried from one timestep to the next.     *)
(***************************************************************************)
InitialTankHead == [n \in Tanks |-> wn.elevation[n] + wn.init_level[n]]

\* The carry-forward itself: every solve of a timestep t >= 1 has the
\* tank-dynamics constraint of every tank with, as head_previous, the tank
\* heads held before the pass; a pass that accepts its solve moves to the
\* next timestep and takes the tank heads of that solve, a pass that
\* rejects it stays at the timestep and (for t >= 1) keeps the heads; the
\* timestep index never moves otherwise within a run.
C27_CarryForwardFromAccepted ==
    /\ [][(SolvedPass /\ t >= 1) =>
             /\ sys'.last_tank_head = last_tank_head
             /\ \A n \in Tanks : TankDynamics(n) \in sys'.cons]_vars
    /\ [][(pc = "loop" /\ pc' = "loop" /\ LoopGuard(t, step_iter)) =>
             \/ /\ ~valve_status_changed'
                /\ t' = t + 1
                /\ last_tank_head' = [n \in Tanks |-> instance'.head[n]]
             \/ /\ valve_status_changed'
                /\ t' = t
                /\ t >= 1 => last_tank_head' = last_tank_head]_vars
    /\ [][t' # t => (t' = t + 1 \/ (pc \in {"idle", "done", "error"} /\ t' = 0))]_vars

\* C27: in every solve of a timestep t >= 1, first attempt or retry, the
\* head_previous of each tank's dynamics constraint is the tank's head in
\* the accepted solve of timestep t-1, which for t = 1 equals elevation +
\* init_level, the value pinned at timestep 0; a head of a rejected solve
\* is never used, and the timesteps are solved in order.
C27_TankHeadCarryForward ==
    /\ C27_CarryForwardFromAccepted
    /\ [][(SolvedPass /\ t = 1) => sys'.last_tank_head = InitialTankHead]_vars

\* The statement of C27 about timestep 1 where create() returns a copy of
\* the model.
C27_WhereCreateCopies ==
    [][(create_copies /\ SolvedPass /\ t = 1)
          => sys'.last_tank_head = InitialTankHead]_vars

(***************************************************************************)
(* Properties of the sign of the flow of a pump.                           *)
(***************************************************************************)
HeadCurvePumps == {l \in Pumps : wn.info_type[l] = "HEAD"}
PumpPositiveFlow(l) == Con("pump_positive_flow", l, NoName, 0, 0)

\* The full-horizon system has the constraint flow >= 0 of every head-curve
\* pump at every instant.
C28_FullHorizonPumpSign ==
    (pc = "loop" /\ build_hydraulic_model(TRUE).error = "none") =>
        \A l \in HeadCurvePumps : \A tt \in 0..(n_timesteps - 1) :
            [t |-> tt, con |-> PumpPositiveFlow(l)] \in build_hydraulic_model(TRUE).cons

\* C28: the full-horizon system and every system of an instant that
\* run_sim hands to the solver have the constraint flow >= 0 of every
\* head-curve pump, and no solved instant has a negative flow in such a
\* pump.
C28_PumpFlowSign ==
    /\ C28_FullHorizonPumpSign
    /\ sys.built =>
          \A l \in HeadCurvePumps :
              /\ PumpPositiveFlow(l) \in sys.cons
              /\ (solve_ok /\ pc \in {"loop", "done"}) => instance.flow[l] >= 0

(***************************************************************************)
(* Properties of what the control engine and the valve state machine       *)
(* write.                                                                  *)
(***************************************************************************)
\* C29: a call of the control engine leaves the link status schedule of
\* the simulator as it was, and a call of the valve state machine leaves
\* the valve statuses of the simulator as they were; neither touches the
\* tank heads of the last accepted instant.  (The fields link_status and
\* status of the two results are self._link_status and self._valve_status
\* as they are when the call ends.)
C29_StateOwnership ==
    /\ [][ControlledPass =>
             LET time_closed == SelectSeq(wn.link_order,
                                   LAMBDA l : ScheduledClosed(link_status, l, t))
             IN  apply_conditional_controls(instance, pumps_closed, time_closed,
                                            link_status, t).link_status = link_status]_vars
    /\ [][SolvedPass =>
             set_valve_status(valve_status, instance').status = valve_status]_vars

\* The tank heads of the last accepted instant are written by the driver
\* alone: they change only in a pass that accepts its solve, to the heads
\* of that solve, or at the top of a pass of timestep 0.
C29_TankHeadsByDriver ==
    [][last_tank_head' # last_tank_head =>
          /\ pc = "loop"
          /\ \/ t = 0
             \/ (~valve_status_changed' /\ t' = t + 1
                   /\ last_tank_head' = [n \in Tanks |-> instance'.head[n]])]_vars

(***************************************************************************)
(* Properties of the first solve on a simulator.                           *)
(***************************************************************************)
\* The step is the first solve of timestep 0 of a run.
FirstSolve == SolvedPass /\ t = 0 /\ solves_at_t = 0

\* What the first system does for every valve: the valve counts as ACTIVE
\* and the head of its downstream node is fixed to pressure_setting +
\* elevation of that node.
AllValvesActiveAndPinned ==
    \A v \in Valves :
        /\ valve_status[v] = "ACTIVE"
        /\ sys'.valve_status[v] = "ACTIVE"
        /\ sys'.head_fixed[wn.end_node[v]]
        /\ sys'.head_value[wn.end_node[v]]
              = wn.setting[v] + wn.elevation[wn.end_node[v]]
        /\ Con("valve_headloss", v, NoName, 0, 0) \notin sys'.cons

\* C30: at the first solve of timestep 0 of the first run on a simulator,
\* every valve of the network has status ACTIVE and the system pins the
\* head of the downstream node of every valve.
C30_InitialValveStatus ==
    [][(FirstSolve /\ runs_left = MaxRuns - 1) => AllValvesActiveAndPinned]_vars

\* The statement of C30 where create() returns the model itself.
C30_WhereCreateReturnsTheModel ==
    [][(~create_copies /\ FirstSolve /\ runs_left = MaxRuns - 1)
          => AllValvesActiveAndPinned]_vars

\* The part of C30 that is about the statuses: at the first solve of the
\* first run every valve is ACTIVE.
C30_AllValvesActive ==
    [][(FirstSolve /\ runs_left = MaxRuns - 1) =>
          \A v \in Valves :
              valve_status[v] = "ACTIVE" /\ sys'.valve_status[v] = "ACTIVE"]_vars

(***************************************************************************)
(* Properties of the link status schedule.                                 *)
(***************************************************************************)
\* C31: the schedule of every link always has n_timesteps entries; a step
\* changes an entry only from closed to open, only in a pass of the loop,
\* only at an index at or after the timestep being solved, and only for a
\* link that an open rule of the control engine opened in that pass;
\* entries of earlier timesteps and of other links stay as they are.
C31_ScheduleMonotone ==
    /\ [](\A l \in wn.links :
             /\ DOMAIN link_status = wn.links
             /\ Len(link_status[l]) = n_timesteps)
    /\ [][\A l \in wn.links : \A i \in 1..n_timesteps :
             link_status'[l][i] # link_status[l][i] =>
                 /\ ~link_status[l][i] /\ link_status'[l][i]
                 /\ pc = "loop" /\ LoopGuard(t, step_iter) /\ t >= 1
                 /\ i - 1 >= t
                 /\ l \in GatherInstant.opened
                 /\ \A j \in 1..n_timesteps : j - 1 >= t => link_status'[l][j]]_vars

\* A permanent override has been performed at the last timestep: the
\* schedule of the pump is open there, against the time controls, and still
\* closed at the timesteps before.
C31_Witness ==
    /\ pc \in {"loop", "done"} /\ sys.built /\ sys.t = n_timesteps - 1
    /\ link_status["PU1"][n_timesteps] /\ ~wn.is_link_open["PU1"][n_timesteps]
    /\ \A i \in 1..(n_timesteps - 1) :
          ~link_status["PU1"][i] /\ ~wn.is_link_open["PU1"][i]
    /\ link_status["V1"] = wn.is_link_open["V1"]

(***************************************************************************)
(* Properties of the conditional closed list over a run.                   *)
(***************************************************************************)
\* The step begins a run: the list is a local of run_sim.
RunBegins == pc \in {"idle", "done", "error"} /\ pc' = "loop"

\* C32: within a run the conditional closed list changes only when the
\* control engine is evaluated (a pass of a timestep t >= 1).  A link
\* enters the list only if a closed rule of it holds at the heads of the
\* last solve and leaves it only if an open rule of it holds at those
\* heads, whether or not the closed rule still holds; while the link is in
\* the list it is among the closed links of every solve, with its flow
\* fixed to 0.
C32_ClosuresLatch ==
    /\ [][(pumps_closed' # pumps_closed /\ ~RunBegins) =>
             (pc = "loop" /\ LoopGuard(t, step_iter) /\ t >= 1)]_vars
    /\ [][~RunBegins =>
             \A k \in DOMAIN wn.conditional_controls :
                 /\ (InSeq(k, pumps_closed) /\ ~InSeq(k, pumps_closed'))
                       => OpenTriggerHolds(k, instance.head)
                 /\ (~InSeq(k, pumps_closed) /\ InSeq(k, pumps_closed'))
                       => CloseTriggerHolds(k, instance.head)]_vars
    /\ [][SolvedPass =>
             \A k \in DOMAIN wn.conditional_controls :
                 InSeq(k, pumps_closed') =>
                     /\ InSeq(k, sys'.links_closed)
                     /\ sys'.flow_fixed[k]
                     /\ instance'.flow[k] = 0]_vars

\* The pump, open by its schedule, was put in the list at an earlier
\* timestep; at the first solve of this timestep its closed rule no longer
\* held and no open rule held, and the pump was closed in the solve all the
\* same.
C32_Witness ==
    /\ pc = "loop" /\ sys.built /\ solve_ok
    /\ sys.t >= 2 /\ t = sys.t /\ solves_at_t = 1
    /\ InSeq("PU1", pumps_closed) /\ InSeq("PU1", sys.links_closed)
    /\ ~ScheduledClosed(link_status, "PU1", sys.t)
    /\ ~CloseTriggerHolds("PU1", sys.last_tank_head)
    /\ ~OpenTriggerHolds("PU1", sys.last_tank_head)
    /\ instance.flow["PU1"] = 0

(***************************************************************************)
(* Properties of the runs on a network without valves.                     *)
(***************************************************************************)
\* C33: on a network without valves the valve-changed flag is never set,
\* the retry counter stays 0, every solve is accepted and moves to the next
\* timestep, so each timestep is solved once, and the run never ends with
\* the non-convergence error.
C33_NoValvesNoRetry ==
    /\ [](Valves = {} =>
             /\ ~valve_status_changed
             /\ step_iter = 0
             /\ solves_at_t = 0
             /\ error.kind # "not_converged")
    /\ [][(Valves = {} /\ SolvedPass) =>
             /\ t' = t + 1
             /\ sys'.t = t
             /\ Len(pyomo_sim_results'.node_times)
                   = Len(pyomo_sim_results.node_times) + Len(wn.node_order)]_vars

\* A run on the network without valves has ended: every timestep was
\* solved, and one instant per timestep was recorded.
C33_Witness ==
    /\ Valves = {} /\ pc = "done" /\ t = n_timesteps
    /\ sys.built /\ sys.t = n_timesteps - 1
    /\ Len(pyomo_sim_results.node_times) = n_timesteps * Len(wn.node_order)

(***************************************************************************)
(* Properties of the demand reported for a junction.                       *)
(***************************************************************************)
\* The step is a pass that accepts its solve and records the instant.
AcceptingPass ==
    /\ pc = "loop" /\ pc' = "loop" /\ LoopGuard(t, step_iter)
    /\ t' = t + 1 /\ pyomo_sim_results' # pyomo_sim_results

\* The system s ties demand_actual of junction n: the variable is fixed or
\* is a term of a constraint on that junction.
DemandTied(s, n) ==
    \/ s.demand_fixed[n]
    \/ \E c \in s.cons : c.kind \in DemandActualKinds /\ c.node = n

\* The demand recorded for every junction of an emitted instant is the
\* required demand of the timestep, which is the demand of the system that
\* was solved.
RecordedDemandIsRequired ==
    \A n \in Junctions :
        /\ node_demand(instance', n) = wn.demand[n][t + 1]
        /\ node_demand(instance', n) = sys'.demand_required[n]

\* C34 (as stated): for every emitted instant and every junction, the
\* demand recorded equals the required demand of the timestep used in the
\* junction's mass balance, and the system ties the actual-demand variable
\* to it instead of leaving it free.
C34_ReportedDemandTied ==
    [][AcceptingPass =>
          /\ RecordedDemandIsRequired
          /\ \A n \in Junctions : DemandTied(sys', n)]_vars

\* C34 (amended): for every emitted instant and every junction, the demand
\* recorded equals the required demand of the timestep used in the
\* junction's mass balance; the system leaves the actual-demand variable
\* free (not fixed, in no constraint), and the value recorded is the one
\* the variable was initialised with.
C34_ReportedDemand ==
    [][AcceptingPass =>
          /\ RecordedDemandIsRequired
          /\ \A n \in Junctions :
                /\ ~DemandTied(sys', n)
                /\ node_demand(instance', n) = init_demand_rule(sys', n)
                /\ Con("mass_balance", NoName, n, 0, 0) \in sys'.cons]_vars

\* An instant with a demand other than 0 at a junction has been emitted
\* after a successful solve, with a flow that meets the demand.
C34_Witness ==
    /\ pc \in {"loop", "done"} /\ sys.built /\ solve_ok /\ t = sys.t + 1
    /\ EmittedInstants(pyomo_sim_results) = t
    /\ \E n \in Junctions :
          /\ wn.demand[n][sys.t + 1] # 0
          /\ node_demand(instance, n) = wn.demand[n][sys.t + 1]
          /\ NetInflow(instance.flow, n) = wn.demand[n][sys.t + 1]

====
